---------------------------- MODULE Spec2Model ----------------------------
(***************************************************************************)
(* Model of the appointment-scheduling agent:                              *)
(*   - the scheduling API (api/calendly_integration.py): slot generation,  *)
(*     availability, booking and cancellation over the in-memory store;    *)
(*   - the Scheduling Agent (agent/scheduling_agent.py): per-session       *)
(*     history, FAQ routing, the tool-call round trip and the apology      *)
(*     backstop;                                                           *)
(*   - the FAQ engine (rag/faq_rag.py): similarity filter, confidence and  *)
(*     the rolling window of each session.                                 *)
(* The specifications share the variables: SpecBooking drives the API,     *)
(* Spec drives the Agent, SpecRetrieval and SpecRag drive the FAQ engine.  *)
(***************************************************************************)
EXTENDS Integers, Sequences, FiniteSets, TLC

VARIABLES
    bookings_db,    \* calendly_integration.bookings_db: booking id -> record
    durations,      \* APPOINTMENT_DURATIONS once the module is imported
    today,          \* datetime.now().date(), as a day number (day 0 is a Monday)
    api             \* the response of the last API request (what the caller sees)

bookingVars == <<bookings_db, durations, today, api>>

VARIABLES
    sessions,       \* SchedulingAgent.sessions: session id -> message list (<<>>: no key)
    detached,       \* message lists no longer stored that a suspended turn still holds
    turns,          \* the chat() calls in progress: position and locals of each
    nturns,         \* chat() calls started so far
    out,            \* what the last call that returned gave its caller
    conversation_history,   \* FAQRAG.conversation_history: session id -> rolling window
    faq             \* what the last direct call of the FAQ engine got and returned

agentVars == <<sessions, detached, turns, nturns, out, conversation_history, faq>>

vars == <<bookings_db, durations, today, api, sessions, detached, turns, nturns, out,
          conversation_history, faq>>

None == "None"

\* None where a time string, or a parsed time, is expected
NoTime == [hh |-> -1, mm |-> -1]

NoDt == -1

-----------------------------------------------------------------------------
(* Times.  A time string "HH:MM" is the record [hh, mm] of its two fields.  *)

T(h, m) == [hh |-> h, mm |-> m]

\* datetime.strptime(s, "%H:%M"): minutes since midnight
strptime(s) == s.hh * 60 + s.mm

\* datetime.strftime("%H:%M")
strftime(minutes) == [hh |-> (minutes \div 60) % 24, mm |-> minutes % 60]

\* date.weekday(): 0 = Monday
weekday(d) == d % 7

-----------------------------------------------------------------------------
DOCTOR_SCHEDULES ==
    [d \in {"Dr. Smith", "Dr. Johnson", "Dr. Williams"} |->
        CASE d = "Dr. Smith" ->
                [available_days |-> {0, 1, 2, 3, 4},
                 hours |-> [start |-> T(9, 0), end |-> T(17, 0)],
                 lunch_break |-> [start |-> T(12, 0), end |-> T(13, 0)]]
          [] d = "Dr. Johnson" ->
                [available_days |-> {0, 1, 2, 3, 4},
                 hours |-> [start |-> T(10, 0), end |-> T(18, 0)],
                 lunch_break |-> [start |-> T(13, 0), end |-> T(14, 0)]]
          [] d = "Dr. Williams" ->
                [available_days |-> {1, 2, 3, 4},
                 hours |-> [start |-> T(9, 0), end |-> T(16, 0)],
                 lunch_break |-> [start |-> T(12, 30), end |-> T(13, 30)]]]

\* list(DOCTOR_SCHEDULES.keys()), in insertion order
DoctorOrder == <<"Dr. Smith", "Dr. Johnson", "Dr. Williams">>

AppointmentType == {"Consultation", "Follow-up", "Check-up", "Vaccination"}

APPOINTMENT_DURATIONS ==
    [t \in AppointmentType |->
        CASE t = "Consultation" -> 30
          [] t = "Follow-up" -> 15
          [] t = "Check-up" -> 20
          [] t = "Vaccination" -> 10]

-----------------------------------------------------------------------------
(* generate_time_slots: the while loop, one recursion per iteration.        *)
(* Times are minutes since midnight of the strptime day; a lunch bound that *)
(* was not given is NoTime.                                                 *)

\* slot_loop without the "slot_end <= end" test
RECURSIVE slot_loop_no_end_test(_, _, _, _, _, _)
slot_loop_no_end_test(current, end, duration, lunch_start_dt, lunch_end_dt, slots) ==
    IF ~(current < end) THEN slots
    ELSE IF /\ lunch_start_dt # NoDt /\ lunch_end_dt # NoDt
            /\ lunch_start_dt <= current /\ current < lunch_end_dt
         THEN slot_loop_no_end_test(current + duration, end, duration,
                                    lunch_start_dt, lunch_end_dt, slots)
         ELSE slot_loop_no_end_test(current + duration, end, duration,
                                    lunch_start_dt, lunch_end_dt,
                                    Append(slots, strftime(current)))

RECURSIVE slot_loop(_, _, _, _, _, _)
slot_loop(current, end, duration, lunch_start_dt, lunch_end_dt, slots) ==
    IF ~(current < end) THEN slots
    ELSE IF /\ lunch_start_dt # NoDt /\ lunch_end_dt # NoDt
            /\ lunch_start_dt <= current /\ current < lunch_end_dt
         THEN slot_loop(current + duration, end, duration,
                        lunch_start_dt, lunch_end_dt, slots)
         ELSE LET slot_end == current + duration
              IN  slot_loop(current + duration, end, duration,
                            lunch_start_dt, lunch_end_dt,
                            IF slot_end <= end
                            THEN Append(slots, strftime(current))
                            ELSE slots)

generate_time_slots(start_time, end_time, duration, lunch_start, lunch_end) ==
    slot_loop(strptime(start_time), strptime(end_time), duration,
              IF lunch_start # NoTime THEN strptime(lunch_start) ELSE NoDt,
              IF lunch_end # NoTime THEN strptime(lunch_end) ELSE NoDt,
              <<>>)

\* is_slot_booked looking at confirmed records only
is_slot_booked_confirmed_only(date, time, doctor) ==
    \E id \in DOMAIN bookings_db :
        /\ bookings_db[id].date = date
        /\ bookings_db[id].time = time
        /\ bookings_db[id].doctor = doctor
        /\ bookings_db[id].status = "confirmed"

\* is_slot_booked: any record with the same date, time and doctor strings
is_slot_booked(date, time, doctor) ==
    \E id \in DOMAIN bookings_db :
        /\ bookings_db[id].date = date
        /\ bookings_db[id].time = time
        /\ bookings_db[id].doctor = doctor

-----------------------------------------------------------------------------
(* Requests and responses of the scheduling API.                           *)

\* The day numbers requests name: a Tuesday and the Monday after it
Dates == {1, 7}

\* A date string that strptime("%Y-%m-%d") rejects
BadDate == -1

MaxToday == 2

MaxBookings == 2

\* Durations a data/doctor_schedule.json may set for an appointment type
FileDurations == {45}

DurationConfigs ==
    {APPOINTMENT_DURATIONS}
        \cup {[APPOINTMENT_DURATIONS EXCEPT !["Consultation"] = d] : d \in FileDurations}

Patients ==
    {[patient_name |-> "Ann", email |-> "ann@x.org", phone |-> "+10000000001", notes |-> None]}

BookDoctors == {"Dr. Williams", "Dr. Who"}

BookTimes == {T(9, 0), T(12, 30), T(16, 0)}

BookTypes == {"Consultation", "Check-up"}

\* BookingRequest values (schemas.BookingRequest, fields already validated)
BookingRequests ==
    {[patient |-> p, date |-> d, time |-> t, appointment_type |-> a, doctor |-> doc] :
        p \in Patients, d \in Dates, t \in BookTimes, a \in BookTypes, doc \in BookDoctors}

\* The time string "H:MM", written without the leading zero of the hour:
\* validate_time and strptime("%H:%M") accept it, and as a string it differs
\* from "0H:MM"
Unpadded(h, m) == [hh |-> h, mm |-> m, pad |-> FALSE]

\* Times of requests that lie on and across the slots of a doctor
SlotTimes == {T(9, 0), Unpadded(9, 0), T(9, 15)}

SlotTypes == {"Consultation", "Follow-up"}

\* Requests for one doctor and one day
SlotRequests ==
    {[patient |-> p, date |-> 1, time |-> t, appointment_type |-> a,
      doctor |-> "Dr. Williams"] :
        p \in Patients, t \in SlotTimes, a \in SlotTypes}

\* Queries for that day and for the same weekday a week later
SlotQueries ==
    {<<1, "Consultation", "Dr. Williams">>,
     <<1, "Follow-up", "Dr. Williams">>,
     <<8, "Consultation", None>>}

\* The (date, appointment_type, doctor) queries of GET /availability
AvailabilityQueries ==
    {<<1, "Consultation", None>>,
     <<1, "Consultation", "Dr. Williams">>,
     <<1, "Check-up", "Dr. Williams">>,
     <<1, "Check-up", "Dr. Who">>,
     <<7, "Consultation", None>>,
     <<7, "Check-up", "Dr. Williams">>,
     <<BadDate, "Consultation", None>>}

Msg(kind, doctor) == [kind |-> kind, doctor |-> doctor]

NoMsg == Msg(None, None)

\* What the caller of an endpoint receives: an HTTP status and the body fields
\* (date and appointment_type are those of an AvailabilityResponse, or of the
\* appointment_details of a successful BookingResponse)
Response(op, status, success, message, booking_id, date, appointment_type, slots) ==
    [op |-> op, status |-> status, success |-> success, message |-> message,
     booking_id |-> booking_id, date |-> date,
     appointment_type |-> appointment_type, slots |-> slots]

NoResponse == Response("none", 0, FALSE, NoMsg, 0, BadDate, None, <<>>)

\* a doctor loop that reports every slot as available
doctor_slots_all_available(date, doc_name, duration) ==
    IF doc_name \notin DOMAIN DOCTOR_SCHEDULES THEN <<>>
    ELSE LET schedule == DOCTOR_SCHEDULES[doc_name]
         IN  IF weekday(date) \notin schedule.available_days THEN <<>>
             ELSE LET time_slots ==
                          generate_time_slots(schedule.hours.start, schedule.hours.end,
                                              duration,
                                              schedule.lunch_break.start,
                                              schedule.lunch_break.end)
                  IN  [i \in 1..Len(time_slots) |->
                          [time |-> time_slots[i],
                           available |-> TRUE,
                           doctor |-> doc_name,
                           duration_minutes |-> duration]]

\* The TimeSlot list of one doctor (get_availability, body of the doctor loop)
doctor_slots(date, doc_name, duration) ==
    IF doc_name \notin DOMAIN DOCTOR_SCHEDULES THEN <<>>
    ELSE LET schedule == DOCTOR_SCHEDULES[doc_name]
         IN  IF weekday(date) \notin schedule.available_days THEN <<>>
             ELSE LET time_slots ==
                          generate_time_slots(schedule.hours.start, schedule.hours.end,
                                              duration,
                                              schedule.lunch_break.start,
                                              schedule.lunch_break.end)
                  IN  [i \in 1..Len(time_slots) |->
                          [time |-> time_slots[i],
                           available |-> ~is_slot_booked(date, time_slots[i], doc_name),
                           doctor |-> doc_name,
                           duration_minutes |-> duration]]

RECURSIVE collect_slots(_, _, _)
collect_slots(date, doctors_to_check, duration) ==
    IF doctors_to_check = <<>> THEN <<>>
    ELSE doctor_slots(date, Head(doctors_to_check), duration)
             \o collect_slots(date, Tail(doctors_to_check), duration)

\* The detail of the response built by "except Exception" of get_availability:
\* f"Error retrieving availability: {str(e)}"
ErrorDetail(text) == [kind |-> "error_retrieving", doctor |-> None, text |-> text]

\* str(e) of an HTTPException(status_code, detail) built from keyword
\* arguments.  The class comes from the installed Starlette, which the
\* source does not pin: with HTTPException.__str__ it is
\* "<status_code>: <detail>", without it the exception has no args and
\* str(e) is the empty string.
str_HTTPException(status_code, detail) == {<<status_code, detail>>, <<>>}

\* get_availability: the response for (date, appointment_type, doctor);
\* str_e is what str(e) gives for the exception raised for a past date
get_availability(date, appointment_type, doctor, str_e) ==
    IF date = BadDate
    THEN Response("availability", 400, FALSE, Msg("bad_date", None), 0,
                  BadDate, None, <<>>)
    ELSE IF date < today
    THEN \* the HTTPException(400) raised in the try block is caught by
         \* "except Exception" and raised again with status 500
         Response("availability", 500, FALSE, ErrorDetail(str_e), 0,
                  BadDate, None, <<>>)
    ELSE LET duration == durations[appointment_type]
             doctors_to_check == IF doctor # None THEN <<doctor>> ELSE DoctorOrder
             all_slots == collect_slots(date, doctors_to_check, duration)
             message ==
                 IF all_slots = <<>> THEN Msg("no_availability", None)
                 ELSE IF ~(\E i \in 1..Len(all_slots) : all_slots[i].available)
                      THEN Msg("all_booked", None)
                      ELSE NoMsg
         IN  Response("availability", 200, FALSE, message, 0,
                      date, appointment_type, all_slots)

\* AvailabilityTool.check_availability: the dictionary the Agent receives for
\* the response of GET /availability; raised = the HTTP client call raised
check_availability(response, raised) ==
    IF raised
    THEN [error |-> <<"Error checking availability: ">>]
    ELSE IF response.status = 200
    THEN [date |-> response.date,
          appointment_type |-> response.appointment_type,
          slots |-> response.slots,
          message |-> response.message]
    ELSE [error |-> <<"Failed to check availability: ", response.status>>,
          details |-> response.message]

\* a booking tool whose error dictionary for an exception has no success key
BookingTool_book_appointment_no_success(response, raised) ==
    IF raised
    THEN [error |-> <<"Error booking appointment: ">>]
    ELSE IF response.status = 200
    THEN [success |-> response.success,
          booking_id |-> response.booking_id,
          message |-> response.message]
    ELSE [success |-> FALSE,
          error |-> <<"Failed to book appointment: ", response.status>>,
          details |-> response.message]

\* BookingTool.book_appointment: the dictionary the Agent receives for the
\* response of POST /book; raised = the HTTP client call raised
BookingTool_book_appointment(response, raised) ==
    IF raised
    THEN [success |-> FALSE,
          error |-> <<"Error booking appointment: ">>]
    ELSE IF response.status = 200
    THEN [success |-> response.success,
          booking_id |-> response.booking_id,
          message |-> response.message]
    ELSE [success |-> FALSE,
          error |-> <<"Failed to book appointment: ", response.status>>,
          details |-> response.message]

\* BookingRequest.validate_date for the dates of the requests: not in the past
\* (the times and phone numbers of the requests pass their validators)
validate_date(date) == date >= today

booking_failure_hours_first(booking) ==
    IF booking.date < today THEN Msg("past", None)
    ELSE IF booking.doctor \notin DOMAIN DOCTOR_SCHEDULES
    THEN Msg("not_found", booking.doctor)
    ELSE LET schedule == DOCTOR_SCHEDULES[booking.doctor]
             time_obj == strptime(booking.time)
             start_time == strptime(schedule.hours.start)
             end_time == strptime(schedule.hours.end)
         IN  IF ~(start_time <= time_obj /\ time_obj < end_time)
             THEN Msg("outside_hours", booking.doctor)
             ELSE IF weekday(booking.date) \notin schedule.available_days
             THEN Msg("not_working", booking.doctor)
             ELSE IF is_slot_booked(booking.date, booking.time, booking.doctor)
             THEN Msg("already_booked", None)
             ELSE NoMsg

\* book_appointment: the first failing check, or None when all pass
booking_failure(booking) ==
    IF booking.date < today THEN Msg("past", None)
    ELSE IF booking.doctor \notin DOMAIN DOCTOR_SCHEDULES
    THEN Msg("not_found", booking.doctor)
    ELSE LET schedule == DOCTOR_SCHEDULES[booking.doctor]
             time_obj == strptime(booking.time)
             start_time == strptime(schedule.hours.start)
             end_time == strptime(schedule.hours.end)
         IN  IF weekday(booking.date) \notin schedule.available_days
             THEN Msg("not_working", booking.doctor)
             ELSE IF ~(start_time <= time_obj /\ time_obj < end_time)
             THEN Msg("outside_hours", booking.doctor)
             ELSE IF is_slot_booked(booking.date, booking.time, booking.doctor)
             THEN Msg("already_booked", None)
             ELSE NoMsg

\* str(uuid.uuid4()): an id no record has yet
new_booking_id == Cardinality(DOMAIN bookings_db) + 1

\* booking_data as book_appointment builds it
booking_data(booking, booking_id) ==
    [booking_id |-> booking_id,
     patient_name |-> booking.patient.patient_name,
     email |-> booking.patient.email,
     phone |-> booking.patient.phone,
     date |-> booking.date,
     time |-> booking.time,
     appointment_type |-> booking.appointment_type,
     doctor |-> booking.doctor,
     notes |-> booking.patient.notes,
     duration_minutes |-> durations[booking.appointment_type],
     status |-> "confirmed",
     created_at |-> today]

-----------------------------------------------------------------------------
(* The endpoints, one action per request.                                   *)

GetAvailability(date, appointment_type, doctor) ==
    /\ \E str_e \in str_HTTPException(400, "past") :
           api' = get_availability(date, appointment_type, doctor, str_e)
    /\ UNCHANGED <<bookings_db, durations, today>>
    /\ UNCHANGED agentVars

BookAppointment(booking) ==
    /\ booking_failure(booking) = NoMsg => Cardinality(DOMAIN bookings_db) < MaxBookings
    /\ LET failure == booking_failure(booking)
           booking_id == new_booking_id
       IN  IF failure # NoMsg
           THEN /\ api' = Response("book", 200, FALSE, failure, 0,
                                   BadDate, None, <<>>)
                /\ UNCHANGED bookings_db
           ELSE /\ bookings_db' =
                       [id \in DOMAIN bookings_db \cup {booking_id} |->
                           IF id = booking_id THEN booking_data(booking, booking_id)
                           ELSE bookings_db[id]]
                /\ api' = Response("book", 200, TRUE, Msg("booked", booking.doctor),
                                   booking_id, booking.date,
                                   booking.appointment_type, <<>>)
    /\ UNCHANGED <<durations, today>>
    /\ UNCHANGED agentVars

\* POST /book: the body is validated as a BookingRequest, which answers 422
\* for a date in the past, before book_appointment runs
PostBook(booking) ==
    IF ~validate_date(booking.date)
    THEN /\ api' = Response("book", 422, FALSE, Msg("validation", None), 0,
                            BadDate, None, <<>>)
         /\ UNCHANGED <<bookings_db, durations, today>>
         /\ UNCHANGED agentVars
    ELSE BookAppointment(booking)

\* cancel_booking that deletes the record
CancelBooking_deletes(booking_id) ==
    /\ IF booking_id \notin DOMAIN bookings_db
       THEN /\ api' = Response("cancel", 404, FALSE, Msg("not_found", None),
                               booking_id, BadDate, None, <<>>)
            /\ UNCHANGED bookings_db
       ELSE /\ bookings_db' = [id \in DOMAIN bookings_db \ {booking_id} |-> bookings_db[id]]
            /\ api' = Response("cancel", 200, TRUE, Msg("cancelled", None),
                               booking_id, BadDate, None, <<>>)
    /\ UNCHANGED <<durations, today>>
    /\ UNCHANGED agentVars

CancelBooking(booking_id) ==
    /\ IF booking_id \notin DOMAIN bookings_db
       THEN /\ api' = Response("cancel", 404, FALSE, Msg("not_found", None),
                               booking_id, BadDate, None, <<>>)
            /\ UNCHANGED bookings_db
       ELSE /\ bookings_db' = [bookings_db EXCEPT ![booking_id].status = "cancelled"]
            /\ api' = Response("cancel", 200, TRUE, Msg("cancelled", None),
                               booking_id, BadDate, None, <<>>)
    /\ UNCHANGED <<durations, today>>
    /\ UNCHANGED agentVars

\* Midnight passes: datetime.now().date() moves to the next day
AdvanceDay ==
    /\ today < MaxToday
    /\ today' = today + 1
    /\ UNCHANGED <<bookings_db, durations, api>>
    /\ UNCHANGED agentVars

-----------------------------------------------------------------------------
(* The Scheduling Agent.  Text is a sequence of tokens: a user message is   *)
(* the sequence of its characters, other texts are one or two tokens.       *)

Sessions == {"s1", "s2"}

TurnIds == {1, 2}

MaxTurns == 2

MaxBatch == 19

\* Python's None and "" where a text is expected
NoneText == <<"<None>">>

EmptyText == <<>>

\* bool(x) of a text or None
Truthy(x) == x # NoneText /\ x # EmptyText

SYSTEM_PROMPT == <<"SYSTEM_PROMPT">>

NoId == <<0, 0>>

\* A message dict of a history list
Message(role, content) ==
    [role |-> role, content |-> content, tool_calls |-> <<>>,
     tool_call_id |-> NoId, name |-> None]

SystemMessage == Message("system", SYSTEM_PROMPT)

\* The assistant message recording the raw tool-call requests
Placeholder(tool_calls) ==
    [role |-> "assistant", content |-> EmptyText, tool_calls |-> tool_calls,
     tool_call_id |-> NoId, name |-> None]

\* The tool-role message of one executed call; content is json.dumps(result)
ToolMessage(tool_call, result) ==
    [role |-> "tool", content |-> <<"json">> \o result, tool_calls |-> <<>>,
     tool_call_id |-> tool_call.id, name |-> tool_call.name]

\* message_with_context: the date line put before the user's text
with_context(message) == <<"[Today's date]">> \o message

\* str.lower() on the letters user messages are written with
Upper == <<"A", "B", "C", "D", "E", "F", "G", "H", "I", "J", "K", "L", "M",
           "N", "O", "P", "Q", "R", "S", "T", "U", "V", "W", "X", "Y", "Z">>

Lower == <<"a", "b", "c", "d", "e", "f", "g", "h", "i", "j", "k", "l", "m",
           "n", "o", "p", "q", "r", "s", "t", "u", "v", "w", "x", "y", "z">>

lower(message) ==
    [i \in 1..Len(message) |->
        IF \E k \in 1..26 : Upper[k] = message[i]
        THEN Lower[CHOOSE k \in 1..26 : Upper[k] = message[i]]
        ELSE message[i]]

\* Python's "needle in haystack" on strings
Contains(haystack, needle) ==
    \E i \in 0..(Len(haystack) - Len(needle)) :
        \A k \in 1..Len(needle) : haystack[i + k] = needle[k]

question_words ==
    {<<"w", "h", "a", "t">>, <<"w", "h", "e", "r", "e">>, <<"w", "h", "e", "n">>,
     <<"h", "o", "w">>, <<"w", "h", "o">>, <<"w", "h", "y">>, <<"?">>}

booking_keywords ==
    {<<"b", "o", "o", "k">>,
     <<"s", "c", "h", "e", "d", "u", "l", "e">>,
     <<"a", "p", "p", "o", "i", "n", "t", "m", "e", "n", "t">>,
     <<"r", "e", "s", "e", "r", "v", "e">>,
     <<"a", "v", "a", "i", "l", "a", "b", "l", "e">>,
     <<"a", "v", "a", "i", "l", "a", "b", "i", "l", "i", "t", "y">>,
     <<"s", "l", "o", "t">>}

is_question(message) == \E q \in question_words : Contains(lower(message), q)

has_booking_intent(message) == \E kw \in booking_keywords : Contains(lower(message), kw)

\* a classification that asks the RAG engine about every question
faq_directed_any_question(message) == is_question(message)

\* _check_faq_intent: whether faq_rag.ask is called for the message
faq_directed(message) == is_question(message) /\ ~has_booking_intent(message)

\* The messages users send
UserMessages ==
    {<<"W", "h", "y", "?">>,
     <<"b", "o", "o", "k">>}

\* Messages for the classification, each marked by hand with whether it
\* contains an interrogative cue and whether it contains a booking keyword
LabelledMessages ==
    {[text |-> <<"w", "h", "a", "t">>,
      cue |-> TRUE, keyword |-> FALSE],
     [text |-> <<"W", "h", "e", "r", "e">>,
      cue |-> TRUE, keyword |-> FALSE],
     [text |-> <<"W", "H", "E", "N">>,
      cue |-> TRUE, keyword |-> FALSE],
     [text |-> <<"s", "h", "o", "w">>,
      cue |-> TRUE, keyword |-> FALSE],
     [text |-> <<"W", "h", "o">>,
      cue |-> TRUE, keyword |-> FALSE],
     [text |-> <<"w", "h", "y">>,
      cue |-> TRUE, keyword |-> FALSE],
     [text |-> <<"?">>,
      cue |-> TRUE, keyword |-> FALSE],
     [text |-> <<"h", "i">>,
      cue |-> FALSE, keyword |-> FALSE],
     [text |-> <<"o", "k", ".">>,
      cue |-> FALSE, keyword |-> FALSE],
     [text |-> <<"b", "o", "o", "k">>,
      cue |-> FALSE, keyword |-> TRUE],
     [text |-> <<"B", "o", "o", "k", "?">>,
      cue |-> TRUE, keyword |-> TRUE],
     [text |-> <<"S", "C", "H", "E", "D", "U", "L", "E">>,
      cue |-> FALSE, keyword |-> TRUE],
     [text |-> <<"h", "o", "w", ",", " ", "s", "l", "o", "t">>,
      cue |-> TRUE, keyword |-> TRUE],
     [text |-> <<"r", "e", "s", "e", "r", "v", "e">>,
      cue |-> FALSE, keyword |-> TRUE],
     [text |-> <<"a", "v", "a", "i", "l", "a", "b", "l", "e", "?">>,
      cue |-> TRUE, keyword |-> TRUE],
     [text |-> <<"a", "v", "a", "i", "l", "a", "b", "i", "l", "i", "t", "y">>,
      cue |-> FALSE, keyword |-> TRUE],
     [text |-> <<"a", "p", "p", "o", "i", "n", "t", "m", "e", "n", "t">>,
      cue |-> FALSE, keyword |-> TRUE],
     [text |-> <<"F", "a", "c", "e", "b", "o", "o", "k", " ", "w", "h", "y">>,
      cue |-> TRUE, keyword |-> TRUE],
     [text |-> <<"w", "h", " ", "a", "t">>,
      cue |-> FALSE, keyword |-> FALSE],
     [text |-> <<"s", "l", "o", " ", "t", "?">>,
      cue |-> TRUE, keyword |-> FALSE]}

IntentMessages == {l.text : l \in LabelledMessages}

-----------------------------------------------------------------------------
(* What the collaborators of the Agent may answer.                          *)

\* faq_rag.ask: it raises (the vector store failed) or returns an answer
\* text and a confidence, here in hundredths
AskOutcomes ==
    {[raised |-> TRUE, answer |-> NoneText, confidence |-> 0]}
        \cup {[raised |-> FALSE, answer |-> a, confidence |-> c] :
                 a \in {<<"faq answer">>, EmptyText, NoneText},
                 c \in {50, 51}}

\* One requested tool call: function name and JSON argument string.  The
\* argument string is well formed ("ok"), not JSON ("bad_json"), or JSON
\* whose keys are not the parameters of the tool ("bad_params").
Call(name, arguments) == [name |-> name, arguments |-> arguments]

\* The tool-call batches of a completion response: a batch with a known tool
\* between two unknown ones, a batch whose second argument string is not
\* JSON, a call with wrong parameter names, and one batch of MaxBatch calls
Batches ==
    {<<Call("get_weather", "ok"), Call("check_availability", "ok"),
       Call("get_weather", "ok")>>,
     <<Call("get_weather", "ok"), Call("check_availability", "bad_json")>>,
     <<Call("book_appointment", "bad_params")>>,
     [i \in 1..MaxBatch |-> Call("get_weather", "ok")]}

ReplyTexts == {<<"reply">>}

\* client.chat.completions.create with tools: it raises, or returns text, or
\* returns tool-call requests
CompletionResponses ==
    {[kind |-> "raise", content |-> NoneText, calls |-> <<>>]}
        \cup {[kind |-> "text", content |-> c, calls |-> <<>>] : c \in ReplyTexts}
        \cup {[kind |-> "tool_calls", content |-> NoneText, calls |-> b] : b \in Batches}

\* The follow-up completion call, with no tools offered
FollowupResponses ==
    {r \in CompletionResponses : r.kind # "tool_calls"}

\* message.content of a completion: a text, the empty text, or None
AnyReplyTexts == {<<"reply">>, EmptyText, NoneText}

\* The completion responses with every kind of content and one small batch
AnyCompletionResponses ==
    {[kind |-> "raise", content |-> NoneText, calls |-> <<>>],
     [kind |-> "tool_calls", content |-> NoneText,
      calls |-> <<Call("book_appointment", "ok")>>]}
        \cup {[kind |-> "text", content |-> c, calls |-> <<>>] : c \in AnyReplyTexts}

AnyFollowupResponses ==
    {r \in AnyCompletionResponses : r.kind # "tool_calls"}

\* The dictionary a tool returns; the Agent serialises it without looking at it
ToolResults == {<<"payload">>}

\* Tool dictionaries with and without an "error" key
AnyToolResults == {<<"payload">>, <<"error", "Failed to check availability: ", 500>>}

-----------------------------------------------------------------------------
(* The rolling window of the RAG engine.                                    *)

rag_system_prompt == <<"RAG_SYSTEM_PROMPT">>

RagMessage(role, content) == [role |-> role, content |-> content]

\* a rolling window that is never trimmed
generate_answer_no_trim(history, question, answer, session_id) ==
    IF session_id \in {None, ""} THEN history
    ELSE LET start == IF history[session_id] = <<>>
                      THEN <<RagMessage("system", rag_system_prompt)>>
                      ELSE history[session_id]
         IN  [history EXCEPT ![session_id] =
                 start \o <<RagMessage("user", question),
                            RagMessage("assistant", answer)>>]

\* conversation_history after generate_answer got the answer for the
\* question from the completion service
generate_answer(history, question, answer, session_id) ==
    IF session_id \in {None, ""} THEN history
    ELSE LET start == IF history[session_id] = <<>>
                      THEN <<RagMessage("system", rag_system_prompt)>>
                      ELSE history[session_id]
             full == start \o <<RagMessage("user", question),
                                RagMessage("assistant", answer)>>
         IN  [history EXCEPT ![session_id] =
                 IF Len(full) > 11
                 THEN <<full[1]>> \o SubSeq(full, Len(full) - 9, Len(full))
                 ELSE full]

\* conversation_history after ask(question, session_id=session_id)
ask(history, question, session_id, o) ==
    IF o.raised THEN history
    ELSE generate_answer(history, question, o.answer, session_id)

\* a FAQ attempt that hands its session id to the RAG engine
ask_session_id_of_turn(session_id) == session_id

\* the session_id of self.faq_rag.ask(message, model=model): the default
ask_session_id(session_id) == None

-----------------------------------------------------------------------------
(* Retrieval and confidence of the FAQ engine.  Distances and similarities  *)
(* are in hundredths; a confidence is the fraction num / den.               *)

\* retrieve_context(query, k=3, min_similarity=0.3): the defaults
k_default == 3

min_similarity_default == 30

\* The question texts of the documents of the collection
FaqQuestions == {"hours", "parking", "insurance"}

\* Cosine distances the collection may report: an exact match (also one that
\* comes out a little below zero), close, just inside, on and just outside
\* the default threshold, and far
Distances == {-5, 0, 50, 70, 71, 150}

\* One entry of similarity_search's result
SearchResult(question, distance) == [question |-> question, distance |-> distance]

\* similarity_search(query, k): at most k documents, nearest first
Retrievals ==
    {r \in UNION {[1..n -> {SearchResult(q, d) : q \in FaqQuestions, d \in Distances}] :
                     n \in 0..k_default} :
        \A i, j \in 1..Len(r) :
            i < j => (r[i].distance <= r[j].distance /\ r[i].question # r[j].question)}

\* a filter that keeps every retrieved result
filtered_results_keep_all(results, min_similarity) ==
    [i \in 1..Len(results) |->
        [question |-> results[i].question, distance |-> results[i].distance,
         similarity |-> 100 - results[i].distance]]

\* The loop of retrieve_context: the results that pass, each with its similarity
RECURSIVE filtered_results(_, _)
filtered_results(results, min_similarity) ==
    IF results = <<>> THEN <<>>
    ELSE LET result == Head(results)
             similarity == 100 - result.distance
         IN  (IF similarity >= min_similarity
              THEN <<[question |-> result.question, distance |-> result.distance,
                      similarity |-> similarity]>>
              ELSE <<>>)
                 \o filtered_results(Tail(results), min_similarity)

NoContext == <<"No relevant information found in the knowledge base.">>

\* retrieve_context: the surviving results and the context string built of them
retrieve_context(results, min_similarity) ==
    LET filtered == filtered_results(results, min_similarity)
    IN  [results |-> filtered,
         context |-> IF filtered = <<>> THEN NoContext
                     ELSE [i \in 1..Len(filtered) |-> <<"Source", i, filtered[i].question>>]]

RECURSIVE sum_similarity(_)
sum_similarity(results) ==
    IF results = <<>> THEN 0
    ELSE Head(results).similarity + sum_similarity(Tail(results))

Fraction(num, den) == [num |-> num, den |-> den]

\* a confidence that is the plain mean, without the cap
confidence_uncapped(results) ==
    IF results # <<>>
    THEN Fraction(sum_similarity(results), Len(results))
    ELSE Fraction(0, 1)

\* ask, "Calculate confidence": min(mean similarity, 1.0), 0.0 without results
confidence(results) ==
    IF results # <<>>
    THEN LET avg_similarity == Fraction(sum_similarity(results), Len(results))
         IN  IF avg_similarity.num < 100 * avg_similarity.den
             THEN avg_similarity ELSE Fraction(100, 1)
    ELSE Fraction(0, 1)

\* Thresholds handed to retrieve_context
Thresholds == {-100, 0, 30, 31, 100, 101}

\* Retrievals for the calls that record a session: nothing found, one close
\* document, and three documents of which two pass the default threshold
RagRetrievals ==
    {<<>>,
     <<SearchResult("hours", 0)>>,
     <<SearchResult("parking", 50), SearchResult("hours", 70),
       SearchResult("insurance", 71)>>}

RagQuestions == {<<"what", "hours">>, <<"where", "parking">>}

\* Session ids handed to the FAQ engine: one real id, none, and the empty string
RagSessionIds == {"s1", None, ""}

\* What the completion service does for generate_answer
RagCompletions ==
    {[kind |-> "raise", content |-> NoneText],
     [kind |-> "answer", content |-> <<"faq answer">>],
     [kind |-> "answer", content |-> <<"other answer">>]}

\* The outcomes used where the rolling window is recorded: a failure and one answer
RagRecordedCompletions == {c \in RagCompletions : c.content # <<"other answer">>}

FALLBACK == <<"I apologize, but I encountered an error while generating a response. Please try again.">>

\* The text generate_answer returns
generate_answer_return(llm) ==
    IF llm.kind = "raise" THEN FALLBACK ELSE llm.content

\* The user message generate_answer sends to the completion service
user_message(context, question) == <<"Context from clinic knowledge base:", context, question>>

NoFaq ==
    [op |-> "none", session_id |-> None, question |-> EmptyText, retrieved |-> <<>>,
     min_similarity |-> 0, results |-> <<>>, prompt |-> EmptyText,
     answer |-> NoneText, sources |-> <<>>,
     confidence |-> Fraction(0, 1), context_used |-> FALSE, failed |-> FALSE]

\* sources that list every retrieved document
sources_of_retrieved(retrieved, results) ==
    [i \in 1..Len(retrieved) |-> retrieved[i].question]

\* ask, "Extract source questions": the questions of the surviving results
sources_of(retrieved, results) ==
    [i \in 1..Len(results) |-> results[i].question]

\* a confidence that drops to zero when the completion service failed
ask_confidence_zero_on_failure(results, llm) ==
    IF llm.kind = "raise" THEN Fraction(0, 1) ELSE confidence(results)

\* ask, "Calculate confidence": computed after generate_answer has returned,
\* from the results alone
ask_confidence(results, llm) == confidence(results)

\* What ask() returns for the retrieval and the completion outcome
ask_return(question, session_id, retrieved, llm) ==
    LET found == retrieve_context(retrieved, min_similarity_default)
        results == found.results
    IN  [op |-> "ask", session_id |-> session_id, question |-> question,
         retrieved |-> retrieved, min_similarity |-> min_similarity_default,
         results |-> results,
         prompt |-> user_message(found.context, question),
         answer |-> generate_answer_return(llm),
         sources |-> sources_of(retrieved, results),
         confidence |-> ask_confidence(results, llm),
         context_used |-> results # <<>>,
         failed |-> llm.kind = "raise"]

-----------------------------------------------------------------------------
(* State of a chat() call.                                                  *)

IdleTurn ==
    [pc |-> "idle", no |-> 0, session_id |-> None, message |-> EmptyText,
     messages |-> "none", obj |-> 0, tool_calls |-> <<>>, idx |-> 0,
     completions |-> 0, tools |-> None]

NoOut ==
    [op |-> "none", session_id |-> None, text |-> NoneText, raised |-> FALSE,
     error |-> None, message_count |-> 0, completions |-> 0]

\* turns that are serialized: a running turn keeps every other call out
Blocked_serialized == \E t \in TurnIds : turns[t].pc # "idle"

\* A synchronous call (faq_rag.ask, completions.create) is running: it holds
\* the event loop, so nothing else runs until it returns
Blocked == \E t \in TurnIds : turns[t].pc \in {"faq", "completion", "followup"}

AllIdle == \A t \in TurnIds : turns[t].pc = "idle"

World == [sessions |-> sessions, detached |-> detached, turns |-> turns]

Min(S) == CHOOSE x \in S : \A y \in S : x <= y

\* The turns other than t whose local "messages" is the stored list of s
Holders(W, s, t) ==
    {u \in TurnIds \ {t} :
        W.turns[u].messages = "stored" /\ W.turns[u].session_id = s}

\* self.sessions[s] = new (or del self.sessions[s] when new is <<>>): the
\* list object stored until now, whose content is old, lives on for the
\* turns that hold it
replace_list(W, s, t, old, new) ==
    LET H == Holders(W, s, t)
    IN  IF H = {} THEN [W EXCEPT !.sessions[s] = new]
        ELSE [W EXCEPT !.sessions[s] = new,
                       !.detached[Min(H)] = old,
                       !.turns = [u \in TurnIds |->
                                     IF u \in H
                                     THEN [W.turns[u] EXCEPT !.messages = "detached",
                                                             !.obj = Min(H)]
                                     ELSE W.turns[u]]]

\* _get_session_messages: the stored list, created on first use
get_session_messages(W, s) ==
    IF W.sessions[s] = <<>> THEN [W EXCEPT !.sessions[s] = <<SystemMessage>>] ELSE W

\* a trim that keeps the last 21 messages, whatever the first of them is
trimmed_without_system(messages) ==
    SubSeq(messages, Len(messages) - 20, Len(messages))

\* a trim that keeps the oldest messages
trimmed_oldest(messages) == SubSeq(messages, 1, 21)

\* The trimmed copy: [messages[0]] + messages[-20:]
trimmed(messages) ==
    <<messages[1]>> \o SubSeq(messages, Len(messages) - 19, Len(messages))

\* a hard cap: a full history takes no further message
add_message_hard_cap(W, s, t, role, content) ==
    LET W1 == get_session_messages(W, s)
    IN  IF Len(W1.sessions[s]) >= 21 THEN W1
        ELSE [W1 EXCEPT !.sessions[s] = Append(@, Message(role, content))]

\* _add_message called by turn t
add_message(W, s, t, role, content) ==
    LET W1 == get_session_messages(W, s)
        messages == Append(W1.sessions[s], Message(role, content))
    IN  IF Len(messages) > 21
        THEN replace_list(W1, s, t, messages, trimmed(messages))
        ELSE [W1 EXCEPT !.sessions[s] = messages]

\* The list the local variable "messages" of turn t refers to
local_list(W, t) ==
    IF W.turns[t].messages = "stored"
    THEN W.sessions[W.turns[t].session_id]
    ELSE W.detached[W.turns[t].obj]

set_local_list(W, t, list) ==
    IF W.turns[t].messages = "stored"
    THEN [W EXCEPT !.sessions[W.turns[t].session_id] = list]
    ELSE [W EXCEPT !.detached[W.turns[t].obj] = list]

\* chat() is left: its locals die, and a list only they referred to with them
end_turn(W, t) ==
    LET obj == W.turns[t].obj
        others == {u \in TurnIds \ {t} :
                      W.turns[u].messages = "detached" /\ W.turns[u].obj = obj}
        W1 == [W EXCEPT !.turns[t] = IdleTurn]
    IN  IF W.turns[t].messages # "detached" THEN W1
        ELSE IF others = {} THEN [W1 EXCEPT !.detached[obj] = <<>>]
        ELSE IF Min(others) < obj THEN W1
        ELSE [W1 EXCEPT !.detached[obj] = <<>>,
                        !.detached[Min(others)] = W.detached[obj],
                        !.turns = [u \in TurnIds |->
                                      IF u \in others
                                      THEN [W1.turns[u] EXCEPT !.obj = Min(others)]
                                      ELSE W1.turns[u]]]

-----------------------------------------------------------------------------
(* chat(): how a turn ends.                                                 *)

apology(e) == <<"I apologize, but I encountered an error: ", e>>

\* return of chat() with the given text
chat_return(W, t, text) ==
    [world |-> end_turn(W, t),
     out |-> [op |-> "chat", session_id |-> W.turns[t].session_id, text |-> text,
              raised |-> FALSE, error |-> None, message_count |-> 0,
              completions |-> W.turns[t].completions]]

\* a handler that lets the exception through
chat_except_reraise(W, t, e) ==
    [world |-> end_turn(W, t),
     out |-> [op |-> "chat", session_id |-> W.turns[t].session_id, text |-> NoneText,
              raised |-> TRUE, error |-> e, message_count |-> 0,
              completions |-> W.turns[t].completions]]

\* a handler that stores the apology as the assistant's reply
chat_except_stores_apology(W, t, e) ==
    [world |-> end_turn(add_message(W, W.turns[t].session_id, t, "assistant",
                                    apology(e)), t),
     out |-> [op |-> "chat", session_id |-> W.turns[t].session_id, text |-> apology(e),
              raised |-> FALSE, error |-> e, message_count |-> 0,
              completions |-> W.turns[t].completions]]

\* except Exception as e: return the error message
chat_except(W, t, e) ==
    [world |-> end_turn(W, t),
     out |-> [op |-> "chat", session_id |-> W.turns[t].session_id, text |-> apology(e),
              raised |-> FALSE, error |-> e, message_count |-> 0,
              completions |-> W.turns[t].completions]]

\* the turn goes on: nothing is returned yet
chat_continue(W) == [world |-> W, out |-> out]

\* the state after a step of chat()
Becomes(r) ==
    /\ sessions' = r.world.sessions
    /\ detached' = r.world.detached
    /\ turns' = r.world.turns
    /\ out' = r.out

-----------------------------------------------------------------------------
(* _handle_tool_calls.                                                      *)

\* {"error": f"Unknown tool: {tool_name}"}
unknown_tool(tool_name) == <<"error", "Unknown tool: ", tool_name>>

\* a dispatcher that raises on a name it does not know
execute_tool_unknown_raises(tool_name, tool_args) ==
    IF tool_name \notin {"check_availability", "book_appointment"} THEN "raise"
    ELSE IF tool_args = "bad_params" THEN "raise"
    ELSE "await"

\* _execute_tool up to its first await: the tool is unknown, the call
\* raises TypeError on the keyword arguments, or the tool's request is sent
execute_tool(tool_name, tool_args) ==
    IF tool_name \notin {"check_availability", "book_appointment"} THEN "unknown"
    ELSE IF tool_args = "bad_params" THEN "raise"
    ELSE "await"

\* a loop that gives up the batch after its first call
RECURSIVE run_calls_first_only(_, _, _)
run_calls_first_only(list, tool_calls, i) ==
    IF i > 1 THEN [status |-> "done", list |-> list, idx |-> i, error |-> None]
    ELSE IF tool_calls[i].arguments = "bad_json"
    THEN [status |-> "raise", list |-> list, idx |-> i, error |-> "JSONDecodeError"]
    ELSE LET step == execute_tool(tool_calls[i].name, tool_calls[i].arguments)
         IN  IF step = "unknown"
             THEN run_calls_first_only(
                      Append(list, ToolMessage(tool_calls[i], unknown_tool(tool_calls[i].name))),
                      tool_calls, i + 1)
             ELSE [status |-> step, list |-> list, idx |-> i,
                   error |-> IF step = "raise" THEN "TypeError" ELSE None]

\* for tool_call in tool_calls, from call i on, up to the next await
RECURSIVE run_calls(_, _, _)
run_calls(list, tool_calls, i) ==
    IF i > Len(tool_calls) THEN [status |-> "done", list |-> list, idx |-> i, error |-> None]
    ELSE IF tool_calls[i].arguments = "bad_json"
    THEN [status |-> "raise", list |-> list, idx |-> i, error |-> "JSONDecodeError"]
    ELSE LET step == execute_tool(tool_calls[i].name, tool_calls[i].arguments)
         IN  IF step = "unknown"
             THEN run_calls(Append(list, ToolMessage(tool_calls[i], unknown_tool(tool_calls[i].name))),
                            tool_calls, i + 1)
             ELSE [status |-> step, list |-> list, idx |-> i,
                   error |-> IF step = "raise" THEN "TypeError" ELSE None]

\* the loop runs on from call i with the local list as given
handle_tool_calls(W, t, list, i) ==
    LET run == run_calls(list, W.turns[t].tool_calls, i)
        W1 == set_local_list(W, t, run.list)
    IN  CASE run.status = "raise" -> chat_except(W1, t, run.error)
          [] run.status = "await" ->
                chat_continue([W1 EXCEPT !.turns[t].pc = "tool", !.turns[t].idx = run.idx])
          [] run.status = "done" ->
                chat_continue([W1 EXCEPT !.turns[t].pc = "followup",
                                         !.turns[t].idx = run.idx,
                                         !.turns[t].completions = @ + 1,
                                         !.turns[t].tools = None])

\* the user message goes to the history and the completion call with the
\* tools is made
tool_mode(W, t) ==
    LET W1 == add_message(W, W.turns[t].session_id, t, "user",
                          with_context(W.turns[t].message))
    IN  chat_continue([W1 EXCEPT !.turns[t].pc = "completion",
                                 !.turns[t].messages = "stored",
                                 !.turns[t].completions = @ + 1,
                                 !.turns[t].tools = "auto"])

-----------------------------------------------------------------------------
(* The operations of the Agent.                                             *)

\* chat(message, session_id) is called and runs up to its first call out
ChatStart(t, session_id, message) ==
    /\ ~Blocked
    /\ turns[t].pc = "idle"
    /\ \A u \in TurnIds : u < t => turns[u].pc # "idle"
    /\ nturns < MaxTurns
    /\ nturns' = nturns + 1
    /\ LET W == [World EXCEPT !.turns[t] =
                    [IdleTurn EXCEPT !.no = nturns + 1, !.session_id = session_id,
                                     !.message = message]]
       IN  IF faq_directed(message)
           THEN Becomes(chat_continue([W EXCEPT !.turns[t].pc = "faq"]))
           ELSE Becomes(tool_mode(W, t))
    /\ UNCHANGED <<conversation_history, faq, bookingVars>>

\* faq_rag.ask is over
FaqReturn(t, o) ==
    /\ turns[t].pc = "faq"
    /\ LET faq_answer == IF o.confidence > 50 THEN o.answer ELSE NoneText
           s == turns[t].session_id
       IN  IF o.raised THEN Becomes(chat_except(World, t, "ask"))
           ELSE IF Truthy(faq_answer)
           THEN Becomes(chat_return(
                    add_message(add_message(World, s, t, "user", turns[t].message),
                                s, t, "assistant", faq_answer),
                    t, faq_answer))
           ELSE Becomes(tool_mode(World, t))
    /\ conversation_history' =
           ask(conversation_history, turns[t].message,
               ask_session_id(turns[t].session_id), o)
    /\ UNCHANGED <<nturns, faq, bookingVars>>

\* the completion call with the tools is over
CompletionReturn(t, r) ==
    /\ turns[t].pc = "completion"
    /\ LET s == turns[t].session_id
           tool_calls == [k \in 1..Len(r.calls) |->
                             [id |-> <<turns[t].no, k>>, name |-> r.calls[k].name,
                              arguments |-> r.calls[k].arguments]]
           W1 == [get_session_messages(World, s) EXCEPT
                      !.turns[t].tool_calls = tool_calls,
                      !.turns[t].messages = "stored"]
       IN  CASE r.kind = "raise" -> Becomes(chat_except(World, t, "completion"))
             [] r.kind = "text" ->
                   Becomes(chat_return(add_message(World, s, t, "assistant", r.content),
                                       t, r.content))
             [] r.kind = "tool_calls" ->
                   Becomes(handle_tool_calls(
                       W1, t, Append(W1.sessions[s], Placeholder(tool_calls)), 1))
    /\ UNCHANGED <<nturns, conversation_history, faq, bookingVars>>

\* a loop that runs a call again when its result carries an "error" key
ToolReturn_retries_error(t, result) ==
    /\ ~Blocked
    /\ turns[t].pc = "tool"
    /\ Becomes(handle_tool_calls(
           World, t,
           Append(local_list(World, t),
                  ToolMessage(turns[t].tool_calls[turns[t].idx], result)),
           IF Head(result) = "error" THEN turns[t].idx ELSE turns[t].idx + 1))
    /\ UNCHANGED <<nturns, conversation_history, faq, bookingVars>>

\* the tool's HTTP request is over and the tool returns its dictionary
ToolReturn(t, result) ==
    /\ ~Blocked
    /\ turns[t].pc = "tool"
    /\ Becomes(handle_tool_calls(
           World, t,
           Append(local_list(World, t),
                  ToolMessage(turns[t].tool_calls[turns[t].idx], result)),
           turns[t].idx + 1))
    /\ UNCHANGED <<nturns, conversation_history, faq, bookingVars>>

\* the follow-up completion call is over
FollowupReturn(t, r) ==
    /\ turns[t].pc = "followup"
    /\ IF r.kind = "raise" THEN Becomes(chat_except(World, t, "completion"))
       ELSE Becomes(chat_return(
                add_message(World, turns[t].session_id, t, "assistant", r.content),
                t, r.content))
    /\ UNCHANGED <<nturns, conversation_history, faq, bookingVars>>

\* a clear_session that empties the whole session map
ClearSession_clears_all(session_id) ==
    /\ ~Blocked
    /\ sessions' = [s \in Sessions |-> <<>>]
    /\ out' = [NoOut EXCEPT !.op = "clear", !.session_id = session_id]
    /\ UNCHANGED <<detached, turns, nturns, conversation_history, faq, bookingVars>>

\* a clear_session that also drops the rolling window of the FAQ engine
ClearSession_clears_rag(session_id) ==
    /\ ~Blocked
    /\ LET W == IF sessions[session_id] # <<>>
                THEN replace_list(World, session_id, 0, sessions[session_id], <<>>)
                ELSE World
       IN  Becomes([world |-> W,
                    out |-> [NoOut EXCEPT !.op = "clear", !.session_id = session_id]])
    /\ conversation_history' = [conversation_history EXCEPT ![session_id] = <<>>]
    /\ UNCHANGED <<nturns, faq, bookingVars>>

ClearSession(session_id) ==
    /\ ~Blocked
    /\ LET W == IF sessions[session_id] # <<>>
                THEN replace_list(World, session_id, 0, sessions[session_id], <<>>)
                ELSE World
       IN  Becomes([world |-> W,
                    out |-> [NoOut EXCEPT !.op = "clear", !.session_id = session_id]])
    /\ UNCHANGED <<nturns, conversation_history, faq, bookingVars>>

GetSessionInfo(session_id) ==
    /\ ~Blocked
    /\ out' = [NoOut EXCEPT !.op = "info", !.session_id = session_id,
                            !.message_count = Len(sessions[session_id]) - 1]
    /\ UNCHANGED <<sessions, detached, turns, nturns, conversation_history, faq, bookingVars>>

-----------------------------------------------------------------------------
(* Direct calls of the FAQ engine.                                          *)

\* generate_answer whose history update sits outside the try block
generate_answer_records_failure(history, question, llm, session_id) ==
    generate_answer(history, question, generate_answer_return(llm), session_id)

\* conversation_history after generate_answer: the update is inside the try
\* block, after the completion call
generate_answer_history(history, question, llm, session_id) ==
    IF llm.kind = "raise" THEN history
    ELSE generate_answer(history, question, llm.content, session_id)

\* faq_rag.retrieve_context(query, min_similarity=...)
RetrieveContext(retrieved, min_similarity) ==
    /\ ~Blocked
    /\ faq' = [NoFaq EXCEPT !.op = "retrieve", !.retrieved = retrieved,
                            !.min_similarity = min_similarity,
                            !.results = retrieve_context(retrieved, min_similarity).results]
    /\ UNCHANGED <<sessions, detached, turns, nturns, out, conversation_history, bookingVars>>

\* faq_rag.ask(question, session_id=session_id)
Ask(question, session_id, retrieved, llm) ==
    /\ ~Blocked
    /\ faq' = ask_return(question, session_id, retrieved, llm)
    /\ conversation_history' =
           generate_answer_history(conversation_history, question, llm, session_id)
    /\ UNCHANGED <<sessions, detached, turns, nturns, out, bookingVars>>

\* faq_rag.clear_session(session_id)
RagClearSession(session_id) ==
    /\ ~Blocked
    /\ conversation_history' = [conversation_history EXCEPT ![session_id] = <<>>]
    /\ faq' = [NoFaq EXCEPT !.op = "clear", !.session_id = session_id]
    /\ UNCHANGED <<sessions, detached, turns, nturns, out, bookingVars>>

-----------------------------------------------------------------------------
(* The specifications.                                                      *)

\* SchedulingAgent.__init__: no session, no turn
InitAgent ==
    /\ sessions = [s \in Sessions |-> <<>>]
    /\ detached = [t \in TurnIds |-> <<>>]
    /\ turns = [t \in TurnIds |-> IdleTurn]
    /\ nturns = 0
    /\ out = NoOut
    /\ conversation_history = [s \in Sessions |-> <<>>]
    /\ faq = NoFaq

\* the module is imported: the store is empty, the durations are loaded
InitStore ==
    /\ bookings_db = <<>>
    /\ durations \in DurationConfigs
    /\ today = 1
    /\ api = NoResponse

InitBooking == InitStore /\ InitAgent

NextBooking ==
    \/ \E q \in AvailabilityQueries : GetAvailability(q[1], q[2], q[3])
    \/ \E booking \in BookingRequests : BookAppointment(booking)
    \/ \E id \in 1..MaxBookings : CancelBooking(id)
    \/ AdvanceDay

SpecBooking == InitBooking /\ [][NextBooking]_vars

Init ==
    /\ InitAgent
    /\ bookings_db = <<>>
    /\ durations = APPOINTMENT_DURATIONS
    /\ today = 1
    /\ api = NoResponse

Next ==
    \/ \E t \in TurnIds, s \in Sessions, m \in UserMessages : ChatStart(t, s, m)
    \/ \E t \in TurnIds, o \in AskOutcomes : FaqReturn(t, o)
    \/ \E t \in TurnIds, r \in CompletionResponses : CompletionReturn(t, r)
    \/ \E t \in TurnIds, result \in ToolResults : ToolReturn(t, result)
    \/ \E t \in TurnIds, r \in FollowupResponses : FollowupReturn(t, r)
    \/ \E s \in Sessions : ClearSession(s)
    \/ \E s \in Sessions : GetSessionInfo(s)

Spec == Init /\ [][Next]_vars

\* Single turns of one session over the labelled messages, each answered by
\* the RAG engine or by a completion without tool calls
NextIntent ==
    \/ \E t \in TurnIds, m \in IntentMessages : ChatStart(t, "s1", m)
    \/ \E t \in TurnIds, o \in AskOutcomes : FaqReturn(t, o)
    \/ \E t \in TurnIds, r \in FollowupResponses : CompletionReturn(t, r)

SpecIntent == Init /\ [][NextIntent]_vars

\* Turns of one session whose completions may come back with empty content
NextReplies ==
    \/ \E t \in TurnIds, m \in UserMessages : ChatStart(t, "s1", m)
    \/ \E t \in TurnIds, o \in AskOutcomes : FaqReturn(t, o)
    \/ \E t \in TurnIds, r \in AnyCompletionResponses : CompletionReturn(t, r)
    \/ \E t \in TurnIds, result \in ToolResults : ToolReturn(t, result)
    \/ \E t \in TurnIds, r \in AnyFollowupResponses : FollowupReturn(t, r)

SpecReplies == Init /\ [][NextReplies]_vars

\* Tool-mode turns, with every batch
NextTools ==
    \/ \E t \in TurnIds, s \in Sessions,
          m \in {um \in UserMessages : ~faq_directed(um)} : ChatStart(t, s, m)
    \/ \E t \in TurnIds, r \in CompletionResponses : CompletionReturn(t, r)
    \/ \E t \in TurnIds, result \in ToolResults : ToolReturn(t, result)
    \/ \E t \in TurnIds, r \in FollowupResponses : FollowupReturn(t, r)

SpecTools == Init /\ [][NextTools]_vars

\* The FAQ engine alone, for one retrieval: the vector store's answer to the
\* query is drawn at the start and every call works on it
InitRetrieval ==
    /\ InitStore
    /\ sessions = [s \in Sessions |-> <<>>]
    /\ detached = [t \in TurnIds |-> <<>>]
    /\ turns = [t \in TurnIds |-> IdleTurn]
    /\ nturns = 0
    /\ out = NoOut
    /\ conversation_history = [s \in Sessions |-> <<>>]
    /\ \E r \in Retrievals : faq = [NoFaq EXCEPT !.retrieved = r]

NextRetrieval ==
    \/ \E m \in Thresholds : RetrieveContext(faq.retrieved, m)
    \/ \E q \in RagQuestions, llm \in RagCompletions : Ask(q, None, faq.retrieved, llm)

SpecRetrieval == InitRetrieval /\ [][NextRetrieval]_vars

\* The FAQ engine called with session ids
NextRag ==
    \/ \E q \in RagQuestions, s \in RagSessionIds, r \in RagRetrievals,
          llm \in RagRecordedCompletions : Ask(q, s, r, llm)
    \/ RagClearSession("s1")

SpecRag == Init /\ [][NextRag]_vars

\* The Agent and the FAQ engine side by side on one session id
NextFrame ==
    \/ \E t \in TurnIds, m \in UserMessages : ChatStart(t, "s1", m)
    \/ \E t \in TurnIds, o \in AskOutcomes : FaqReturn(t, o)
    \/ \E t \in TurnIds, r \in FollowupResponses : CompletionReturn(t, r)
    \/ ClearSession("s1")
    \/ \E r \in RagRetrievals, llm \in RagRecordedCompletions :
          Ask(<<"what", "hours">>, "s1", r, llm)
    \/ RagClearSession("s1")

SpecFrame == Init /\ [][NextFrame]_vars

\* Turns whose tools answer with and without an error
NextTurn ==
    \/ \E t \in TurnIds, m \in UserMessages : ChatStart(t, "s1", m)
    \/ \E t \in TurnIds, o \in AskOutcomes : FaqReturn(t, o)
    \/ \E t \in TurnIds, r \in CompletionResponses : CompletionReturn(t, r)
    \/ \E t \in TurnIds, result \in AnyToolResults : ToolReturn(t, result)
    \/ \E t \in TurnIds, r \in FollowupResponses : FollowupReturn(t, r)

SpecTurn == Init /\ [][NextTurn]_vars

\* The scheduling API behind its HTTP layer, as the tools reach it
NextHttp ==
    \/ \E q \in AvailabilityQueries : GetAvailability(q[1], q[2], q[3])
    \/ \E booking \in BookingRequests : PostBook(booking)
    \/ \E id \in 1..MaxBookings : CancelBooking(id)
    \/ AdvanceDay

SpecHttp == InitBooking /\ [][NextHttp]_vars

\* The scheduling API with requests around the slots of one doctor's day
NextSlots ==
    \/ \E q \in SlotQueries : GetAvailability(q[1], q[2], q[3])
    \/ \E booking \in SlotRequests : BookAppointment(booking)
    \/ \E id \in 1..MaxBookings : CancelBooking(id)
    \/ AdvanceDay

SpecSlots == InitBooking /\ [][NextSlots]_vars

-----------------------------------------------------------------------------
(* Properties of the Agent, checked under Spec.                             *)

\* C1: whenever no turn is in progress, the stored history of every session
\* holds at most 21 messages (the system message plus 20), also after turns
\* that ran a tool-call batch and turns that ended in the apology.
C1_IdleHistoryWithinCap ==
    AllIdle => \A s \in Sessions : Len(sessions[s]) <= 21

\* The ids of the tool messages of turn number no, in the order they stand
\* in the list
RECURSIVE ToolIdsOf(_, _)
ToolIdsOf(list, no) ==
    IF list = <<>> THEN <<>>
    ELSE IF Head(list).role = "tool" /\ Head(list).tool_call_id[1] = no
         THEN <<Head(list).tool_call_id>> \o ToolIdsOf(Tail(list), no)
         ELSE ToolIdsOf(Tail(list), no)

\* C2: while the follow-up completion call of a turn is made, every call of
\* the batch has been executed, the list sent with it holds the tool-call
\* placeholder of the batch once, no tool message of the batch before it
\* and after it exactly one tool message per requested call id in request
\* order, and no tools are offered.
C2_FollowupAfterWholeBatch ==
    \A t \in TurnIds :
        turns[t].pc = "followup" =>
            LET list == local_list(World, t)
                tool_calls == turns[t].tool_calls
                P == {p \in 1..Len(list) : list[p] = Placeholder(tool_calls)}
            IN  /\ turns[t].idx = Len(tool_calls) + 1
                /\ Cardinality(P) = 1
                /\ \A p \in P :
                      /\ ToolIdsOf(SubSeq(list, 1, p), turns[t].no) = <<>>
                      /\ ToolIdsOf(SubSeq(list, p + 1, Len(list)), turns[t].no)
                             = [k \in 1..Len(tool_calls) |-> tool_calls[k].id]
                /\ turns[t].tools = None

\* C2 witness: a follow-up call is made for a batch of three calls, one of
\* them awaited, while messages of another turn stand between the
\* placeholder and the last tool message.
C2_Witness ==
    \E t \in TurnIds :
        /\ turns[t].pc = "followup"
        /\ Len(turns[t].tool_calls) = 3
        /\ \E p, q \in 1..Len(local_list(World, t)) :
              /\ p < q
              /\ local_list(World, t)[p] = Placeholder(turns[t].tool_calls)
              /\ local_list(World, t)[q].role = "user"

\* C3: chat() never raises: every response it gives is a returned text, and
\* when something failed in the turn (the RAG lookup, a completion call, the
\* decoding of tool arguments, the dispatch of a tool) the text is the
\* apology for that failure.
C3_NoExceptionLeavesChat ==
    out.op = "chat" =>
        /\ ~out.raised
        /\ out.error # None => out.text = apology(out.error)

\* C3 witness: a turn whose tool dispatch failed on the parameter names has
\* returned the apology.
C3_Witness ==
    /\ out.op = "chat"
    /\ out.error = "TypeError"
    /\ out.text = apology("TypeError")
    /\ ~out.raised

\* A call of a tool the Agent does not have, with decodable arguments
IsUnknownCall(call) ==
    /\ call.name \notin {"check_availability", "book_appointment"}
    /\ call.arguments = "ok"

\* The first call from i on that is not such a call, Len + 1 if there is none
RECURSIVE FirstOther(_, _)
FirstOther(calls, i) ==
    IF i > Len(calls) THEN i
    ELSE IF IsUnknownCall(calls[i]) THEN FirstOther(calls, i + 1)
    ELSE i

\* The loop of turn t has just run on from call i of the batch calls
RunsPastUnknown(t, calls, i) ==
    LET stop == FirstOther(calls, i)
        list == local_list(World, t)'
    IN  /\ turns'[t].pc = "idle" => stop <= Len(calls)
        /\ turns'[t].pc # "idle" =>
              /\ turns'[t].idx = stop
              /\ turns'[t].pc = "followup" <=> stop = Len(calls) + 1
              /\ \A k \in i..(stop - 1) :
                    Cardinality({p \in 1..Len(list) :
                        list[p] = ToolMessage(turns'[t].tool_calls[k],
                                              unknown_tool(calls[k].name))}) = 1

\* C11: a call of an unknown tool with decodable arguments never ends the
\* turn: whenever the loop over a batch runs, it passes every such call,
\* appends for it the tool message with the payload
\* {error: "Unknown tool: <name>"} under the id of the call, goes on to the
\* next call, and the follow-up call is made with those messages in its list
\* once no call is left.
C11_UnknownToolDoesNotAbort ==
    [][\A t \in TurnIds :
          /\ (/\ turns[t].pc = "tool"
              /\ turns'[t].pc # "tool" \/ turns'[t].idx # turns[t].idx)
                 => RunsPastUnknown(t, turns[t].tool_calls, turns[t].idx + 1)
          /\ turns[t].pc = "completion" =>
                \A r \in CompletionResponses :
                    (r.kind = "tool_calls" /\ CompletionReturn(t, r))
                        => RunsPastUnknown(t, r.calls, 1)]_vars

\* C11 witness: the follow-up call is made for a batch whose first and last
\* call name an unknown tool, with the error payload of the last one in the
\* list after the result of the awaited call between them.
C11_Witness ==
    \E t \in TurnIds :
        /\ turns[t].pc = "followup"
        /\ Len(turns[t].tool_calls) = 3
        /\ IsUnknownCall(turns[t].tool_calls[1])
        /\ ~IsUnknownCall(turns[t].tool_calls[2])
        /\ \E p, q \in 1..Len(local_list(World, t)) :
              /\ p < q
              /\ local_list(World, t)[p].tool_call_id = turns[t].tool_calls[2].id
              /\ local_list(World, t)[q] =
                     ToolMessage(turns[t].tool_calls[3],
                                 unknown_tool(turns[t].tool_calls[3].name))

\* Whether ask() is to be called for a labelled message
AskExpected(message) ==
    \E l \in LabelledMessages : l.text = message /\ l.cue /\ ~l.keyword

\* C12: a turn calls ask() of the RAG engine exactly when its message
\* contains an interrogative cue (what, where, when, how, who, why, or a
\* question mark, in any letter case and anywhere in the text) and none of
\* the booking keywords; every other message goes straight to the
\* tool-offering completion call, and ask() is called nowhere else in a turn.
C12_AskIffCueAndNoKeyword ==
    [][\A t \in TurnIds :
          /\ (turns[t].pc = "idle" /\ turns'[t].pc # "idle") =>
                /\ turns'[t].pc = "faq" <=> AskExpected(turns'[t].message)
                /\ ~AskExpected(turns'[t].message) =>
                      (turns'[t].pc = "completion" /\ turns'[t].tools = "auto")
          /\ (turns[t].pc # "faq" /\ turns'[t].pc = "faq") => turns[t].pc = "idle"]_vars

\* C12 witness: ask() is running for a message whose cue is in upper case,
\* after a turn whose message held a cue and a booking keyword was answered
\* without it.
C12_Witness ==
    \E t \in TurnIds :
        /\ turns[t].pc = "faq"
        /\ turns[t].message = <<"W", "H", "E", "N">>
        /\ Len(sessions["s1"]) = 3
        /\ sessions["s1"][2].content = with_context(<<"B", "o", "o", "k", "?">>)

\* C13: when ask() reports a confidence of at most 0.5, the turn goes on to
\* the tool-offering completion call and nothing of the attempt is kept:
\* nothing is returned to the caller at that point, the history of the
\* session gains the user message with its date context and nothing else,
\* and the rolling window of the RAG engine is as it was.
C13_DiscardedFaqLeavesNoTrace ==
    [][\A t \in TurnIds :
          turns[t].pc = "faq" =>
              \A o \in AskOutcomes :
                  (FaqReturn(t, o) /\ ~o.raised /\ o.confidence <= 50) =>
                      LET s == turns[t].session_id
                          start == IF sessions[s] = <<>> THEN <<SystemMessage>>
                                   ELSE sessions[s]
                          full == Append(start,
                                         Message("user", with_context(turns[t].message)))
                      IN  /\ turns'[t].pc = "completion"
                          /\ turns'[t].tools = "auto"
                          /\ out' = out
                          /\ sessions'[s] = IF Len(full) > 21
                                            THEN <<full[1]>> \o SubSeq(full, Len(full) - 19,
                                                                       Len(full))
                                            ELSE full
                          /\ \A s2 \in Sessions \ {s} : sessions'[s2] = sessions[s2]
                          /\ conversation_history' = conversation_history]_vars

\* C13 witness: the tool-offering call of a turn with a FAQ-directed message
\* is running, the user message with its date context is the last message of
\* the history, and the RAG engine holds no window.
C13_Witness ==
    \E t \in TurnIds :
        /\ turns[t].pc = "completion"
        /\ faq_directed(turns[t].message)
        /\ LET history == sessions[turns[t].session_id]
           IN  history[Len(history)] = Message("user", with_context(turns[t].message))
        /\ \A s \in Sessions : conversation_history[s] = <<>>

\* C14: in every reachable state the history stored for a session, if there
\* is one, starts with the system message; appends, trims and failed turns
\* leave it in the first place.
C14_SystemMessageFirst ==
    \A s \in Sessions :
        sessions[s] # <<>> =>
            /\ Len(sessions[s]) >= 1
            /\ sessions[s][1] = SystemMessage

\* C14 witness: after a trim that evicted the oldest messages and a later
\* turn on the session that ended in the apology, the system message is
\* still first.
C14_Witness ==
    \E s \in Sessions :
        /\ AllIdle
        /\ Len(sessions[s]) >= 21
        /\ sessions[s][1] = SystemMessage
        /\ sessions[s][2].role = "tool"
        /\ out.op = "chat" /\ out.session_id = s /\ out.error # None

\* C15: a step that trims a history leaves the system message followed by
\* the 20 messages appended last, the messages of the step included, in the
\* order they were appended: what is evicted is older than everything kept.
C15_TrimKeepsNewestTwenty ==
    [][\A s \in Sessions :
          (/\ sessions[s] # <<>> /\ sessions'[s] # <<>>
           /\ sessions'[s] # sessions[s]
           /\ \/ Len(sessions'[s]) < Len(sessions[s])
              \/ SubSeq(sessions'[s], 1, Len(sessions[s])) # sessions[s]) =>
              /\ Len(sessions'[s]) = 21
              /\ sessions'[s][1] = sessions[s][1]
              /\ \E n \in 1..2 :
                    LET full == sessions[s] \o SubSeq(sessions'[s], 22 - n, 21)
                    IN  \A k \in 1..20 :
                            sessions'[s][1 + k] = full[Len(full) - 20 + k]]_vars

\* C15 witness: a turn with a batch of MaxBatch calls on a new session has
\* ended with its reply stored; the user message and the placeholder were
\* evicted, the tool messages up to the last and the reply are kept.
C15_Witness ==
    \E s \in Sessions :
        /\ AllIdle
        /\ Len(sessions[s]) = 21
        /\ sessions[s][2].role = "tool"
        /\ sessions[s][20].tool_call_id = <<1, MaxBatch>>
        /\ sessions[s][21] = Message("assistant", <<"reply">>)

\* C16: when a chat() call returns a final answer (from the FAQ, from a
\* completion without tool calls, or after a tool round trip), the last
\* message of the stored history of its session is the assistant message
\* with the returned text.
C16_AnswerIsLastMessage ==
    [][\A t \in TurnIds :
          (/\ turns[t].pc # "idle" /\ turns'[t].pc = "idle"
           /\ out'.error = None) =>
              LET history == sessions'[turns[t].session_id]
              IN  /\ out'.op = "chat"
                  /\ out'.session_id = turns[t].session_id
                  /\ Len(history) >= 2
                  /\ history[Len(history)] = Message("assistant", out'.text)]_vars

\* C16 witness: a tool round trip has returned its answer on a session that
\* another turn wrote to in between, and the answer is the last message.
C16_Witness ==
    \E s \in Sessions :
        /\ AllIdle
        /\ out.op = "chat" /\ out.session_id = s /\ out.error = None
        /\ out.completions = 2
        /\ sessions[s][Len(sessions[s])] = Message("assistant", out.text)
        /\ \E p, q \in 1..Len(sessions[s]) :
              /\ p < q
              /\ sessions[s][p].role = "assistant" /\ sessions[s][p].tool_calls # <<>>
              /\ sessions[s][q].role = "user"

\* C17: every text chat() returns is a string that is neither None nor
\* empty, whatever content and tool-call requests the completions carry.
C17_ChatReturnsText ==
    out.op = "chat" => (out.text # NoneText /\ out.text # EmptyText)

\* C18: turns on one session id are not serialized: while a turn waits for
\* a tool, a second chat() call on the same session can start (as long as
\* the model has a turn left for it), and its messages go to the history
\* between the messages of the first turn.
C18_TurnsNotSerialized ==
    \A t \in TurnIds :
        (/\ turns[t].pc = "tool"
         /\ nturns < MaxTurns
         /\ \E u \in TurnIds : turns[u].pc = "idle") =>
            \A m \in UserMessages :
                \E u \in TurnIds : ENABLED ChatStart(u, turns[t].session_id, m)

\* C18 witness: the stored history of a session holds the placeholder of
\* one turn, then the user message and the reply of another turn, then a
\* tool result of the first turn.
C18_Witness ==
    \E s \in Sessions :
        \E p, q, r, w \in 1..Len(sessions[s]) :
            /\ p < q /\ q < r /\ r < w
            /\ sessions[s][p].role = "assistant" /\ sessions[s][p].tool_calls # <<>>
            /\ sessions[s][q].role = "user"
            /\ sessions[s][r] = Message("assistant", <<"reply">>)
            /\ sessions[s][w].role = "tool"
            /\ sessions[s][w].tool_call_id[1] = sessions[s][p].tool_calls[1].id[1]

\* C4: when ask() reports a confidence above 0.5 for a FAQ-directed message,
\* chat() returns the answer of ask(), whatever its text, the history of the
\* session ends with the user message and that answer, and the turn has made
\* no completion call.
C4_ConfidentFaqAnswerReturned ==
    [][\A t \in TurnIds :
          turns[t].pc = "faq" =>
              \A o \in AskOutcomes :
                  (FaqReturn(t, o) /\ ~o.raised /\ o.confidence > 50) =>
                      LET history == sessions'[turns[t].session_id]
                      IN  /\ out'.op = "chat"
                          /\ out'.text = o.answer
                          /\ out'.completions = 0
                          /\ turns'[t].pc = "idle"
                          /\ Len(history) >= 3
                          /\ history[Len(history) - 1] = Message("user", turns[t].message)
                          /\ history[Len(history)] = Message("assistant", o.answer)]_vars

\* C5: get_session_info on a session id that was never used returns
\* message_count = 0.
C5_NeverUsedCountsZero ==
    [][\A s \in Sessions :
          (GetSessionInfo(s) /\ nturns = 0) =>
              out'.message_count = 0]_vars

\* C6: get_session_info(id) right after clear_session(id) returns
\* message_count = 0.
C6_ClearThenInfoCountsZero ==
    [][\A s \in Sessions :
          (/\ out.op = "clear" /\ out.session_id = s /\ sessions[s] = <<>>
           /\ nturns > 0
           /\ GetSessionInfo(s)) =>
              out'.message_count = 0]_vars

-----------------------------------------------------------------------------
(* Properties of the scheduling API, checked under SpecBooking.             *)

\* The booking requests for the triple of an existing record, of any status
RepeatRequests(id) ==
    {booking \in BookingRequests :
        /\ booking.date = bookings_db[id].date
        /\ booking.time = bookings_db[id].time
        /\ booking.doctor = bookings_db[id].doctor}

Refused(resp) ==
    /\ resp.op = "book"
    /\ resp.success = FALSE
    /\ resp.message.kind = "already_booked"

FailedChecks(booking) ==
    LET known == booking.doctor \in DOMAIN DOCTOR_SCHEDULES
        schedule == DOCTOR_SCHEDULES[booking.doctor]
    IN  <<[kind |-> "past", failed |-> booking.date < today],
          [kind |-> "not_found", failed |-> ~known],
          [kind |-> "not_working",
           failed |-> known /\ weekday(booking.date) \notin schedule.available_days],
          [kind |-> "outside_hours",
           failed |-> known /\ ~(/\ strptime(schedule.hours.start) <= strptime(booking.time)
                                 /\ strptime(booking.time) < strptime(schedule.hours.end))],
          [kind |-> "already_booked",
           failed |-> \E id \in DOMAIN bookings_db :
                          /\ bookings_db[id].date = booking.date
                          /\ bookings_db[id].time = booking.time
                          /\ bookings_db[id].doctor = booking.doctor]>>

\* C19: a booking request that fails one or more of the checks past date,
\* unknown doctor, non-working day, time outside working hours, slot already
\* booked is answered with a success = false result (status 200, no error)
\* whose message is that of the first check it fails in this order, and the
\* booking store is left as it was.
C19_FirstFailingCheckWins ==
    [][api'.op = "book" =>
          \A booking \in BookingRequests :
              LET checks == FailedChecks(booking)
                  failing == {i \in 1..5 : checks[i].failed}
              IN  (BookAppointment(booking) /\ failing # {}) =>
                      /\ api'.status = 200
                      /\ api'.success = FALSE
                      /\ \E i \in failing :
                            /\ \A j \in failing : i <= j
                            /\ api'.message.kind = checks[i].kind
                      /\ bookings_db' = bookings_db]_vars

\* C19 witness: with a booking in the store, a request for a day the doctor
\* does not work (and, among the requests, at a time outside the working
\* hours) was refused for the working day.
C19_Witness ==
    /\ api.op = "book"
    /\ api.status = 200
    /\ api.success = FALSE
    /\ api.message.kind = "not_working"
    /\ Cardinality(DOMAIN bookings_db) >= 1

\* The reason "Cannot book appointments in the past" in what the tool hands on
CarriesPastReason(result) ==
    /\ "details" \in DOMAIN result
    /\ \E i \in 1..Len(result.details.text) : result.details.text[i] = "past"

\* An availability check for a date earlier than today generates no slot and
\* reaches the Agent as a dictionary with an "error" key and no "slots" key,
\* whether the HTTP call returns or raises
C20_PastAvailabilityIsErrorPayload ==
    [][\A q \in AvailabilityQueries :
          (GetAvailability(q[1], q[2], q[3]) /\ q[1] # BadDate /\ q[1] < today) =>
              /\ api'.slots = <<>>
              /\ \A raised \in BOOLEAN :
                     LET result == check_availability(api', raised)
                     IN  "error" \in DOMAIN result /\ "slots" \notin DOMAIN result]_vars

C20_ReasonLost ==
    /\ api.op = "availability" /\ api.status = 500
    /\ ~CarriesPastReason(check_availability(api, FALSE))

\* C8 (as stated): a slot returned by get_availability has available = true
\* if and only if no non-cancelled booking exists for its exact
\* (date, time, doctor) triple.
C8_AvailableIffNoLiveBooking ==
    (api.op = "availability" /\ api.status = 200) =>
        \A i \in 1..Len(api.slots) :
            api.slots[i].available <=>
                ~\E id \in DOMAIN bookings_db :
                    /\ bookings_db[id].status # "cancelled"
                    /\ bookings_db[id].date = api.date
                    /\ bookings_db[id].time = api.slots[i].time
                    /\ bookings_db[id].doctor = api.slots[i].doctor

\* C9 (as stated): no slot [t, t + duration) returned by availability
\* generation intersects the doctor's lunch interval [lunch_start, lunch_end).
C9_NoSlotOverlapsLunch ==
    (api.op = "availability" /\ api.status = 200) =>
        \A i \in 1..Len(api.slots) :
            LET slot == api.slots[i]
                lunch == DOCTOR_SCHEDULES[slot.doctor].lunch_break
                t == strptime(slot.time)
            IN  ~(t < strptime(lunch.end) /\ strptime(lunch.start) < t + slot.duration_minutes)

\* C10: every slot returned by availability generation starts at or after
\* the doctor's opening time and ends at or before the closing time.
C10_SlotsWithinWorkingHours ==
    (api.op = "availability" /\ api.status = 200) =>
        \A i \in 1..Len(api.slots) :
            LET slot == api.slots[i]
                hours == DOCTOR_SCHEDULES[slot.doctor].hours
                t == strptime(slot.time)
            IN  /\ strptime(hours.start) <= t
                /\ t + slot.duration_minutes <= strptime(hours.end)

\* C10 witness: slots were returned for a duration that does not divide the
\* working day, so the last step of the grid had to be dropped.
C10_Witness ==
    /\ api.op = "availability" /\ api.status = 200
    /\ \E i \in 1..Len(api.slots) :
          LET slot == api.slots[i]
              hours == DOCTOR_SCHEDULES[slot.doctor].hours
          IN  (strptime(hours.end) - strptime(hours.start)) % slot.duration_minutes # 0

\* The fields of a booking record other than status
BookingFields ==
    {"booking_id", "patient_name", "email", "phone", "date", "time",
     "appointment_type", "doctor", "notes", "duration_minutes", "created_at"}

\* C21: a booking record is never removed and none of its fields changes
\* except status, which only moves from confirmed to cancelled; cancelling a
\* cancelled booking changes nothing, and cancelling an unknown id is
\* answered with not-found and changes nothing
C21_BookingRecordsOnlyCancelled ==
    [][/\ \A id \in DOMAIN bookings_db :
              /\ id \in DOMAIN bookings_db'
              /\ \A f \in BookingFields : bookings_db'[id][f] = bookings_db[id][f]
              /\ bookings_db'[id].status # bookings_db[id].status =>
                     /\ bookings_db[id].status = "confirmed"
                     /\ bookings_db'[id].status = "cancelled"
       /\ \A id \in 1..MaxBookings :
              CancelBooking(id) =>
                  IF id \notin DOMAIN bookings_db
                  THEN /\ api'.status = 404
                       /\ api'.message.kind = "not_found"
                       /\ bookings_db' = bookings_db
                  ELSE bookings_db[id].status = "cancelled" =>
                           bookings_db' = bookings_db]_vars

\* A booking was cancelled, a later day has come, and the last request was
\* the cancellation of an id that is not in the store
C21_Witness ==
    /\ \E id \in DOMAIN bookings_db :
           bookings_db[id].status = "cancelled" /\ bookings_db[id].created_at < today
    /\ api.op = "cancel" /\ api.status = 404

-----------------------------------------------------------------------------
(* Properties of the FAQ engine.                                            *)

\* A retrieved result passes the default threshold of ask()
Passes(result) == 100 - result.distance >= min_similarity_default

\* The retrieved results ask() may use, in retrieval order
Surviving == SelectSeq(faq.retrieved, Passes)

RECURSIVE SimilaritySum(_)
SimilaritySum(results) ==
    IF results = <<>> THEN 0
    ELSE (100 - Head(results).distance) + SimilaritySum(Tail(results))

\* C22: the confidence returned by ask() lies in [0, 1], and it is 0.0 if and
\* only if no retrieved result passed the similarity threshold
C22_ConfidenceInUnitInterval ==
    faq.op = "ask" =>
        /\ faq.confidence.den > 0
        /\ 0 <= faq.confidence.num
        /\ faq.confidence.num <= 100 * faq.confidence.den
        /\ faq.confidence.num = 0 <=>
               ~\E i \in 1..Len(faq.retrieved) : Passes(faq.retrieved[i])

\* ask() has answered from a document whose distance came out below zero,
\* next to one that was filtered out
C22_Witness ==
    /\ faq.op = "ask"
    /\ \E i \in 1..Len(faq.retrieved) : faq.retrieved[i].distance < 0
    /\ \E i \in 1..Len(faq.retrieved) : ~Passes(faq.retrieved[i])
    /\ faq.confidence.num = 100 * faq.confidence.den

\* C23: the confidence is min(1.0, mean similarity of the results that passed
\* the threshold), filtered-out results do not influence it, sources lists
\* the question text of exactly the surviving results, and context_used is
\* true exactly when that list is non-empty
C23_ConfidenceIsMeanOfSurvivors ==
    faq.op = "ask" =>
        LET n == Len(Surviving)
            sum == SimilaritySum(Surviving)
        IN  /\ n = 0 => faq.confidence.num = 0
            /\ n > 0 =>
                   faq.confidence.num * n =
                       faq.confidence.den * (IF sum < 100 * n THEN sum ELSE 100 * n)
            /\ faq.sources = [i \in 1..n |-> Surviving[i].question]
            /\ faq.context_used <=> faq.sources # <<>>

\* ask() has answered from two surviving results of different similarity
\* while a third retrieved result was filtered out
C23_Witness ==
    /\ faq.op = "ask"
    /\ Len(faq.retrieved) = 3 /\ Len(faq.sources) = 2
    /\ faq.retrieved[1].distance < faq.retrieved[2].distance
    /\ faq.confidence.num < 100 * faq.confidence.den
    /\ faq.context_used

\* One sequence is the other with some entries left out, order kept
RECURSIVE IsSubSeq(_, _)
IsSubSeq(small, big) ==
    IF small = <<>> THEN TRUE
    ELSE IF big = <<>> THEN FALSE
    ELSE IF Head(small) = Head(big) THEN IsSubSeq(Tail(small), Tail(big))
    ELSE IsSubSeq(small, Tail(big))

\* The retrieved entries behind a list of results of retrieve_context
Stripped(results) ==
    [i \in 1..Len(results) |->
        SearchResult(results[i].question, results[i].distance)]

AtLeast(result) == 100 - result.distance >= faq.min_similarity

\* C24: retrieve_context returns exactly the retrieved results whose
\* similarity 1 - distance is >= min_similarity, in retrieval order, and for
\* thresholds a <= b on the same retrieval the results at b are among those
\* at a, so raising the threshold never increases the result count
C24_FilterIsMonotone ==
    faq.op = "retrieve" =>
        /\ Stripped(faq.results) = SelectSeq(faq.retrieved, AtLeast)
        /\ \A i \in 1..Len(faq.results) :
               faq.results[i].similarity = 100 - faq.results[i].distance
        /\ \A b \in Thresholds :
               faq.min_similarity <= b =>
                   LET at_b == retrieve_context(faq.retrieved, b).results
                   IN  /\ IsSubSeq(at_b, faq.results)
                       /\ Len(at_b) <= Len(faq.results)

\* retrieve_context kept some results and dropped others, and a higher
\* threshold keeps fewer
C24_Witness ==
    /\ faq.op = "retrieve"
    /\ 0 < Len(faq.results) /\ Len(faq.results) < Len(faq.retrieved)
    /\ \E b \in Thresholds :
           /\ faq.min_similarity < b
           /\ Len(retrieve_context(faq.retrieved, b).results) < Len(faq.results)

\* C25: confidence, sources and context_used of ask() depend on the retrieval
\* only: whatever the completion service does for the same retrieval (another
\* answer text, a failure), they are the same
C25_ConfidenceIgnoresCompletion ==
    faq.op = "ask" =>
        \A llm \in RagCompletions :
            LET other == ask_return(faq.question, faq.session_id, faq.retrieved, llm)
            IN  /\ other.confidence = faq.confidence
                /\ other.sources = faq.sources
                /\ other.context_used = faq.context_used

\* ask() returned the fallback of a failed completion with a confidence above zero
C25_Witness ==
    /\ faq.op = "ask"
    /\ faq.failed /\ faq.answer = FALLBACK
    /\ faq.confidence.num > 0

\* C26: when the completion service fails inside generate_answer, the call
\* returns the fixed apologetic fallback string, raises nothing, and leaves
\* the rolling history of the session exactly as it was
C26_FailureLeavesWindowAlone ==
    [][(faq'.op = "ask" /\ faq'.failed) =>
           /\ faq'.answer = FALLBACK
           /\ conversation_history' = conversation_history]_vars

\* The completion failed for a session that already has a rolling window
C26_Witness ==
    /\ faq.op = "ask" /\ faq.failed /\ faq.session_id = "s1"
    /\ Len(conversation_history["s1"]) >= 3
    /\ faq.answer = FALLBACK

\* A rolling window: the system instruction, then at most five exchanges, each
\* a bare question followed by an assistant message
WindowOk(h) ==
    h # <<>> =>
        /\ h[1] = RagMessage("system", rag_system_prompt)
        /\ Len(h) <= 11
        /\ Len(h) % 2 = 1
        /\ \A i \in 2..Len(h) :
               IF i % 2 = 0
               THEN h[i].role = "user" /\ h[i].content \in RagQuestions
               ELSE h[i].role = "assistant"

\* C27: for every session id passed to generate_answer the rolling history
\* starts with the system instruction, holds at most 11 messages (system plus
\* the last 10), and records each successful exchange as the bare question
\* followed by the answer, never the context-augmented prompt
C27_WindowIsSystemPlusLastTen ==
    [][/\ \A s \in Sessions : WindowOk(conversation_history'[s])
       /\ (faq'.op = "ask" /\ ~faq'.failed /\ faq'.session_id \in Sessions) =>
              LET old == conversation_history[faq'.session_id]
                  full == (IF old = <<>> THEN <<RagMessage("system", rag_system_prompt)>>
                           ELSE old)
                              \o <<RagMessage("user", faq'.question),
                                   RagMessage("assistant", faq'.answer)>>
                  h == conversation_history'[faq'.session_id]
              IN  /\ Len(h) = IF Len(full) > 11 THEN 11 ELSE Len(full)
                  /\ \A i \in 2..Len(h) : h[i] = full[Len(full) - Len(h) + i]
                  /\ h[Len(h) - 1].content # faq'.prompt]_vars

\* A successful exchange was recorded in a window that is full, under a
\* question other than the one that opens the window
C27_Witness ==
    /\ faq.op = "ask" /\ ~faq.failed /\ faq.session_id = "s1"
    /\ Len(conversation_history["s1"]) = 11
    /\ conversation_history["s1"][2].content # faq.question
    /\ conversation_history["s1"][10].content = faq.question

\* C28: the Agent's session history and the rolling window of the FAQ engine
\* are never merged: chat() and clear_session() of the Agent leave every
\* rolling window unchanged, and ask()/generate_answer() of the FAQ engine
\* leave the Agent's session map unchanged
C28_HistoriesAreDisjoint ==
    [][/\ (turns' # turns \/ sessions' # sessions \/ out' # out) =>
              conversation_history' = conversation_history
       /\ (faq' # faq \/ conversation_history' # conversation_history) =>
              /\ sessions' = sessions
              /\ detached' = detached
              /\ turns' = turns]_vars

\* The Agent has cleared a session whose rolling window in the FAQ engine is
\* still there
C28_Witness ==
    /\ out.op = "clear" /\ out.session_id = "s1"
    /\ sessions["s1"] = <<>>
    /\ Len(conversation_history["s1"]) >= 3
    /\ nturns > 0

\* The step is an operation on session id s: a chat() turn of s moves (or a
\* turn holding the list of s loses it to a clear), or no turn moves and
\* clear_session or get_session_info of s returns
ActsOn(s) ==
    \/ \E t \in TurnIds :
          /\ turns'[t] # turns[t]
          /\ s \in {turns[t].session_id, turns'[t].session_id}
    \/ turns' = turns /\ out'.op \in {"clear", "info"} /\ out'.session_id = s

\* C29: in any interleaving of turns, chat(), clear_session() and
\* get_session_info() on one session id leave the stored history of every
\* other session id unchanged
C29_OtherSessionsUntouched ==
    [][\A a \in Sessions :
          ActsOn(a) => \A b \in Sessions \ {a} : sessions'[b] = sessions[b]]_vars

\* A turn of s1 waits for its tool while a turn of s2 has returned, both
\* sessions holding a history
C29_Witness ==
    /\ \E t \in TurnIds : turns[t].pc = "tool" /\ turns[t].session_id = "s1"
    /\ out.op = "chat" /\ out.session_id = "s2"
    /\ Len(sessions["s1"]) >= 3
    /\ Len(sessions["s2"]) >= 3

\* The steps a turn has left at most: one per call of the batch still to be
\* answered, then the follow-up call; before the batch is known, the largest
\* batch stands in for it
Rank(turn) ==
    CASE turn.pc = "idle" -> 0
      [] turn.pc = "followup" -> 1
      [] turn.pc = "tool" -> Len(turn.tool_calls) - turn.idx + 2
      [] turn.pc = "completion" -> MaxBatch + 2
      [] turn.pc = "faq" -> MaxBatch + 3

\* The completion calls a turn at this position has made
CompletionsAt(turn) ==
    CASE turn.pc \in {"idle", "faq"} -> 0
      [] turn.pc \in {"completion", "tool"} -> 1
      [] turn.pc = "followup" -> 2

\* No two tool messages of the list answer the same call of turn number no
AnsweredOnce(list, no) ==
    LET ids == ToolIdsOf(list, no)
    IN  \A i, j \in 1..Len(ids) : ids[i] = ids[j] => i = j

\* C30: nothing is retried within a turn: the Agent makes at most two
\* completion calls of its own (the call that offers the tools and, only
\* after a tool-call response, one follow-up), runs each requested tool call
\* at most once even when its result carries an error key, and every turn
\* ends after a number of steps bounded by the size of the tool-call batch
C30_NothingIsRetried ==
    [][\A t \in TurnIds :
          /\ turns'[t].completions = CompletionsAt(turns'[t])
          /\ turns'[t].pc = "followup" => Len(turns'[t].tool_calls) > 0
          /\ out'.op = "chat" => out'.completions <= 2
          /\ turns'[t].messages # "none" =>
                 AnsweredOnce(local_list(World, t)', turns'[t].no)
          /\ (turns[t].pc = "tool" /\ turns'[t].no = turns[t].no
                 /\ turns'[t].pc = "tool") => turns'[t].idx >= turns[t].idx
          /\ (turns[t].pc # "idle"
                 /\ <<turns'[t].pc, turns'[t].idx, turns'[t].no>>
                        # <<turns[t].pc, turns[t].idx, turns[t].no>>) =>
                 Rank(turns'[t]) < Rank(turns[t])]_vars

\* A turn makes its follow-up call after a batch in which a tool answered
\* with an error: the error result stands in the list once
C30_Witness ==
    \E t \in TurnIds :
        /\ turns[t].pc = "followup"
        /\ turns[t].completions = 2
        /\ LET list == local_list(World, t)
           IN  \E i \in 1..Len(list) :
                   /\ list[i].role = "tool"
                   /\ list[i].tool_call_id[1] = turns[t].no
                   /\ list[i].name = "check_availability"
                   /\ list[i].content[2] = "error"

-----------------------------------------------------------------------------
(* Properties of the tools.                                                 *)

\* C31: the tool executions never raise for HTTP or transport failures and
\* always return a dictionary: a successful (2xx) response passes the decoded
\* payload through, a non-2xx response yields error and details, a transport
\* exception yields error, and every error dictionary of the Booking Tool
\* also carries success = false
C31_ToolsReturnDictionaries ==
    /\ api.op = "availability" =>
           LET result == check_availability(api, FALSE)
               failed == check_availability(api, TRUE)
           IN  /\ api.status \in 200..299 =>
                      /\ "error" \notin DOMAIN result
                      /\ result.slots = api.slots /\ result.date = api.date
                      /\ result.message = api.message
               /\ api.status \notin 200..299 =>
                      /\ DOMAIN result = {"error", "details"}
                      /\ result.details = api.message
               /\ DOMAIN failed = {"error"}
    /\ api.op = "book" =>
           LET result == BookingTool_book_appointment(api, FALSE)
               failed == BookingTool_book_appointment(api, TRUE)
           IN  /\ api.status \in 200..299 =>
                      /\ "error" \notin DOMAIN result
                      /\ result.success = api.success
                      /\ result.booking_id = api.booking_id
                      /\ result.message = api.message
               /\ api.status \notin 200..299 =>
                      /\ DOMAIN result = {"error", "details", "success"}
                      /\ result.details = api.message
                      /\ result.success = FALSE
               /\ DOMAIN failed = {"error", "success"}
               /\ failed.success = FALSE

\* POST /book was answered with a status that is not 2xx while a booking is
\* in the store
C31_Witness ==
    /\ api.op = "book" /\ api.status = 422
    /\ bookings_db # <<>>

-----------------------------------------------------------------------------
(* Properties of clear_session and of the history around tool batches.      *)

\* C32: clear_session(id) removes the history of id, raises nothing, and does
\* nothing more when applied again; once id is cleared, its history is made
\* again only by the next chat() on id, as the system message followed by
\* that turn's messages, the first of which is its user message
C32_ClearedHistoryStartsFresh ==
    [][\A s \in Sessions :
          /\ ClearSession(s) =>
                 /\ sessions'[s] = <<>> /\ ~out'.raised
                 /\ \A o \in Sessions \ {s} : sessions'[o] = sessions[o]
          /\ (ClearSession(s) /\ sessions[s] = <<>>) =>
                 sessions' = sessions /\ detached' = detached /\ turns' = turns
          /\ (sessions[s] = <<>> /\ sessions'[s] # <<>>) =>
                 /\ Len(sessions'[s]) >= 2
                 /\ sessions'[s][1] = SystemMessage
                 /\ sessions'[s][2].role = "user"]_vars

\* The tool messages of the list after position p that answer the call id
Answers(list, p, id) ==
    {j \in (p + 1)..Len(list) : list[j].role = "tool" /\ list[j].tool_call_id = id}

\* The positions of the list that hold a tool-call placeholder
Placeholders(list) ==
    {p \in 1..Len(list) : list[p].role = "assistant" /\ list[p].tool_calls # <<>>}

\* C33: whenever no turn is in progress, every tool-call placeholder of a
\* stored history is followed by exactly one tool message for each call id
\* it records, also after a dispatch raised or the follow-up call failed
C33_PlaceholdersAnswered ==
    AllIdle =>
        \A s \in Sessions : \A p \in Placeholders(sessions[s]) :
            \A k \in 1..Len(sessions[s][p].tool_calls) :
                Cardinality(Answers(sessions[s], p, sessions[s][p].tool_calls[k].id)) = 1

\* C34: in every stored history each tool message is preceded by the
\* tool-call placeholder that records its tool_call_id: the trim never
\* evicts a placeholder while keeping one of its tool results
C34_ToolMessagesHavePlaceholder ==
    \A s \in Sessions : \A j \in 1..Len(sessions[s]) :
        sessions[s][j].role = "tool" =>
            \E p \in Placeholders(sessions[s]) :
                /\ p < j
                /\ \E k \in 1..Len(sessions[s][p].tool_calls) :
                      sessions[s][p].tool_calls[k].id = sessions[s][j].tool_call_id

\* C35: with concurrent turns on one session id, the list a turn appends its
\* placeholder and tool results to, and reads its follow-up prompt from,
\* stays the stored history of the session for the whole round trip: only
\* clear_session, never the trim of another turn, takes it out of the store
C35_RoundTripListStaysStored ==
    [][\A t \in TurnIds :
          (turns[t].pc \in {"tool", "followup"} /\ turns[t].messages = "stored"
              /\ turns'[t].pc \in {"tool", "followup"}) =>
                 \/ turns'[t].messages = "stored"
                 \/ ClearSession(turns[t].session_id)]_vars

-----------------------------------------------------------------------------
(* Properties that tie accepted bookings to the slots of get_availability.  *)

\* The start times get_availability lists for the doctor on the date with
\* slots of the given length
ListedTimes(date, doctor, duration) ==
    LET slots == doctor_slots(date, doctor, duration)
    IN  {slots[i].time : i \in 1..Len(slots)}

\* C36: every accepted booking has a time that get_availability lists as a
\* slot for its date, doctor and appointment type: on the slot grid, not in
\* the lunch break, and ending by closing time
C36_BookingsAreListedSlots ==
    \A id \in DOMAIN bookings_db :
        bookings_db[id].time \in
            ListedTimes(bookings_db[id].date, bookings_db[id].doctor,
                        bookings_db[id].duration_minutes)

\* The bookings overlap as intervals [time, time + duration_minutes)
Overlap(a, b) ==
    /\ strptime(a.time) < strptime(b.time) + b.duration_minutes
    /\ strptime(b.time) < strptime(a.time) + a.duration_minutes

\* C37: no two bookings that are not cancelled, for the same doctor and
\* date, overlap as intervals [time, time + duration_minutes), whatever
\* their appointment types
C37_NoOverlappingBookings ==
    \A i, j \in DOMAIN bookings_db :
        (/\ i # j
         /\ bookings_db[i].status # "cancelled" /\ bookings_db[j].status # "cancelled"
         /\ bookings_db[i].doctor = bookings_db[j].doctor
         /\ bookings_db[i].date = bookings_db[j].date)
            => ~Overlap(bookings_db[i], bookings_db[j])

\* C38: the store holds at most one booking record, of any status, for a
\* (date, time, doctor) triple: the test for a booked slot and the insert
\* are one step of book_appointment, with no await between them
C38_OneRecordPerTriple ==
    \A i, j \in DOMAIN bookings_db :
        (/\ bookings_db[i].date = bookings_db[j].date
         /\ bookings_db[i].time = bookings_db[j].time
         /\ bookings_db[i].doctor = bookings_db[j].doctor) => i = j

\* A request was refused as already booked while the store holds a cancelled
\* and a confirmed record of the same day
C38_Witness ==
    /\ api.op = "book" /\ api.message.kind = "already_booked"
    /\ \E i, j \in DOMAIN bookings_db :
          /\ i # j
          /\ bookings_db[i].status = "cancelled"
          /\ bookings_db[j].status = "confirmed"
          /\ bookings_db[i].date = bookings_db[j].date

\* The booking request for slot i of the availability response last given
SlotRequest(i, p) ==
    [patient |-> p, date |-> api.date, time |-> api.slots[i].time,
     appointment_type |-> api.appointment_type, doctor |-> api.slots[i].doctor]

\* book_appointment accepts the request now
Accepted(booking) == validate_date(booking.date) /\ booking_failure(booking) = NoMsg

\* C39 as stated: every slot reported with available = true is accepted by
\* book_appointment for the same date, doctor and appointment type, provided
\* no other booking is made in between
C39_AvailableSlotIsBookable ==
    (api.op = "availability" /\ api.status = 200) =>
        \A i \in 1..Len(api.slots) : \A p \in Patients :
            api.slots[i].available => Accepted(SlotRequest(i, p))

\* C39 amended: the same, provided also that the date of the query has not
\* passed in between
C39_AvailableSlotIsBookableInTime ==
    (api.op = "availability" /\ api.status = 200 /\ api.date >= today) =>
        \A i \in 1..Len(api.slots) : \A p \in Patients :
            api.slots[i].available => Accepted(SlotRequest(i, p))

\* An availability response for a day that has not passed reports one slot
\* as booked and another as available
C39_Witness ==
    /\ api.op = "availability" /\ api.status = 200 /\ api.date >= today
    /\ \E i, j \in 1..Len(api.slots) :
          api.slots[i].available /\ ~api.slots[j].available

-----------------------------------------------------------------------------
(* Properties of a tool-mode turn that fails.                               *)

\* Turn t, past the append of its user message, returns in this step
\* through the exception handler
FailsInToolMode(t) ==
    /\ turns[t].pc \in {"completion", "tool", "followup"}
    /\ turns'[t].pc = "idle"
    /\ out'.error # None

\* new holds old and after it only tool-call placeholders and tool messages
OnlyBatchAdded(old, new) ==
    /\ Len(new) >= Len(old)
    /\ SubSeq(new, 1, Len(old)) = old
    /\ \A j \in (Len(old) + 1)..Len(new) :
          \/ new[j].role = "tool"
          \/ new[j].role = "assistant" /\ new[j].tool_calls # <<>>

\* C40: a tool-mode turn that fails after its user message was appended is
\* not rolled back and gets no assistant reply in the history: the apology
\* is returned and not stored, and what the turn had appended stays, so that
\* the history of the next turn can hold two user messages in a row
C40_FailedTurnLeavesHistory ==
    [][\A t \in TurnIds :
          FailsInToolMode(t) =>
              /\ out'.text = apology(out'.error) /\ ~out'.raised
              /\ out'.session_id = turns[t].session_id
              /\ \A s \in Sessions : OnlyBatchAdded(sessions[s], sessions'[s])]_vars

\* After a turn of the session ended in the apology, the next turn of the
\* session makes its completion call with a history whose last two messages
\* are user messages
C40_Witness ==
    \E t \in TurnIds :
        LET s == turns[t].session_id
        IN  /\ turns[t].pc = "completion" /\ turns[t].messages = "stored"
            /\ out.op = "chat" /\ out.error # None /\ out.session_id = s
            /\ Len(sessions[s]) >= 3
            /\ sessions[s][Len(sessions[s])].role = "user"
            /\ sessions[s][Len(sessions[s]) - 1].role = "user"

=============================================================================
